---- MODULE Spec2Model ----
(***************************************************************************)
(* The action runtime of menu/: HookManager.trigger, run_async,            *)
(* BaseAction.__call__ / Option.__call__, Action, ChainedAction,           *)
(* ActionGroup and RetryHandler, as a machine that executes one Python     *)
(* thread: a stack of frames, the heap of contexts and objects, the event  *)
(* loop's ready queue, and a history of what has been observed.            *)
(***************************************************************************)
EXTENDS Integers, Sequences, FiniteSets, TLC

\* ------------------------------------------------------------ bounds
MaxChildren == 3        \* children of a composite
MaxRetries == 2         \* RetryHandler.max_retries ranges over 0..MaxRetries
MaxFail == 2            \* a callable fails on its first 0..MaxFail calls
MaxCalls == 2           \* invocations of the root object by the environment

\* ------------------------------------------------------------ values
\* One universe for Python values: None, results and exceptions.  src and n
\* give an exception or a result its identity (who produced it, on which call).
None == [t |-> "None", src |-> 0, n |-> 0]
Value(o, k) == [t |-> "value", src |-> o, n |-> k]
Exc(type, o, k) == [t |-> type, src |-> o, n |-> k]
IsExc(v) == v.t \notin {"None", "value"}

\* context["duration"] = None
NoDuration == -1

\* RetryHandler.__init__ defaults
Delay == 1
Backoff == 2

PhaseNames == {"before", "after", "on_error", "on_teardown"}

\* ------------------------------------------------------------ objects
\* HookManager._hooks: one list of hooks per phase.  A hook is named by what
\* it does: "log" returns, "raise" raises, "recover" removes 'exception' from
\* the context and sets 'result', "retry" is RetryHandler.retry_on_error.
HookManager(b, a, e, t) == [before |-> b, after |-> a, on_error |-> e, on_teardown |-> t]

\* A callable given by the user: it raises on its first failFirst calls (on
\* every call when always) and returns a value afterwards.
Fn(k, alw, asy) == [failFirst |-> k, always |-> alw, isAsync |-> asy]
NoFn == Fn(0, FALSE, FALSE)

Object(kind, fn, rb, acts, hooks, mr) ==
    [kind |-> kind, fn |-> fn, rollback |-> rb, actions |-> acts,
     hooks |-> hooks, max_retries |-> mr]

DefaultHooks == HookManager(<<"log">>, <<"log">>, <<>>, <<"log">>)

\* Children of a composite: what each child does when invoked.
\*   ok       returns, no rollback         okrb   returns, has a rollback
\*   okrbx    returns, its rollback raises  fail  raises (and has a rollback)
\*   rec      raises, and its own on_error hook recovers (has a rollback)
ChildProfiles == {"ok", "okrb", "okrbx", "fail", "rec"}

Child(p) ==
    Object("Action",
           Fn(0, p \in {"fail", "rec"}, FALSE),
           CASE p = "ok" -> "none" [] p = "okrbx" -> "raises" [] OTHER -> "returns",
           <<>>,
           HookManager(<<"log">>, <<"log">>,
                       IF p = "rec" THEN <<"recover">> ELSE <<>>, <<"log">>),
           0)

BeforeLists == {<<"log">>, <<"raise", "log">>}
OnErrorLists == {<<>>, <<"log">>, <<"recover">>, <<"raise">>, <<"recover", "raise">>,
                 <<"retry">>, <<"retry", "log">>}
CompositeOnError == {<<>>, <<"recover">>, <<"retry">>}
Retries(e) == IF \E j \in 1..Len(e) : e[j] = "retry" THEN 0..MaxRetries ELSE {0}

LeafFns == {Fn(k, FALSE, asy) : k \in 0..MaxFail, asy \in BOOLEAN} \cup {Fn(0, TRUE, FALSE)}

\* The object graphs the environment may build; object 1 is the one it invokes.
OnErrorChoices == UNION {{<<e, mr>> : mr \in Retries(e)} : e \in OnErrorLists}
CompositeChoices == {<<e, 1>> : e \in CompositeOnError}

LeafConfigs ==
    { <<Object("Action", fn, "none", <<>>,
               HookManager(b, <<"log">>, em[1], <<"log">>), em[2])>> :
        fn \in LeafFns, b \in BeforeLists, em \in OnErrorChoices }

ChildLists(profiles) == UNION {[1..n -> profiles] : n \in 0..MaxChildren}
ChildIds(ps) == [j \in 1..Len(ps) |-> j + 1]
Children(ps) == [j \in 1..Len(ps) |-> Child(ps[j])]

CompositeConfigs(kind, profiles) ==
    { <<Object(kind, NoFn, "none", ChildIds(ps),
               HookManager(<<"log">>, <<"log">>, em[1], <<"log">>), em[2])>>
        \o Children(ps) :
        ps \in ChildLists(profiles), em \in CompositeChoices }

\* An Option over a raw callable, and an Option over an Action.
OptionConfigs ==
    { <<Object("Option", fn, "none", <<>>,
               HookManager(<<"log">>, <<"log">>, em[1], <<"log">>), em[2])>> :
        fn \in {Fn(k, FALSE, FALSE) : k \in 0..MaxFail}, em \in OnErrorChoices }
    \cup
    { <<Object("Option", NoFn, "none", <<2>>,
               HookManager(<<"log">>, <<"log">>, em[1], <<"log">>), em[2]),
        Object("Action", Fn(k, FALSE, FALSE), "none", <<>>, DefaultHooks, 0)>> :
        k \in 0..MaxFail, em \in OnErrorChoices }

Configs == LeafConfigs \cup CompositeConfigs("ChainedAction", ChildProfiles)
           \cup CompositeConfigs("ActionGroup", {"ok", "fail"}) \cup OptionConfigs

\* ------------------------------------------------------------ state
VARIABLES
    objs,    \* the object graph (fixed after construction)
    heap,    \* per object: calls of fn, TimingMixin fields, Option._result,
             \* ActionGroup.results / errors
    ctxs,    \* the contexts created so far, one per invocation
    stack,   \* the Python call stack: frames, innermost last
    ready,   \* the running event loop's queue of created tasks
    ret,     \* what the frame that just finished returned or raised
    now,     \* time.perf_counter()
    calls,   \* invocations of the root object made by the environment
    trace    \* history: what has been observable so far

vars == <<objs, heap, ctxs, stack, ready, ret, now, calls, trace>>

NoRet == [kind |-> "none", val |-> None]
Return(v) == [kind |-> "return", val |-> v]
Raise(v) == [kind |-> "raise", val |-> v]

\* `raise v`: raising None is itself a TypeError.
PyRaise(v, o) == IF IsExc(v) THEN v ELSE Exc("TypeError", o, 0)

Frame(op, o, c, pc) ==
    [op |-> op, o |-> o, c |-> c, pc |-> pc, ph |-> "", i |-> 0,
     v |-> None, k |-> "none", s |-> <<>>, d |-> 0]

Ev(e, c, o, ph, i, x) == [e |-> e, c |-> c, o |-> o, ph |-> ph, i |-> i, x |-> x]

Top == stack[Len(stack)]
Below == SubSeq(stack, 1, Len(stack) - 1)
Running(op, pc) == Len(stack) > 0 /\ Top.op = op /\ Top.pc = pc

\* asyncio.get_running_loop() succeeds: this thread is inside asyncio.run.
InLoop(stk) == \E j \in 1..Len(stk) : stk[j].op = "run"

NoTask == [o |-> 0, ph |-> "", c |-> 0]
Task(hm, ph, c) == [o |-> hm, ph |-> ph, c |-> c]

\* BaseAction.__init__ / ActionGroup.__init__ / Option's private attributes
NewObject == [ncalls |-> 0, start_time |-> NoDuration, end_time |-> NoDuration,
              duration |-> NoDuration, result |-> None,
              results |-> <<>>, errors |-> <<>>]

Init ==
    /\ objs \in Configs
    /\ heap = [o \in 1..Len(objs) |-> NewObject]
    /\ ctxs = <<>>
    /\ stack = <<>>
    /\ ready = <<>>
    /\ ret = NoRet
    /\ now = 0
    /\ calls = 0
    /\ trace = <<>>

\* ------------------------------------------------------------ run_async
\* trigger(hook_type, context) as a coroutine about to run its first hook
TriggerFrame(hm, ph, c) == [Frame("trigger", hm, c, "hooks") EXCEPT !.ph = ph, !.i = 1]

\* run_async(hooks.trigger(ph, context)): inside a running loop the coroutine
\* only becomes a task; otherwise asyncio.run drives it to completion.
run_async(stk, hm, ph, c, tr) ==
    IF InLoop(stk)
    THEN /\ ready' = Append(ready, Task(hm, ph, c))
         /\ stack' = stk
         /\ trace' = Append(tr, Ev("create_task", c, hm, ph, 0, None))
    ELSE /\ ready' = ready
         /\ stack' = stk \o <<Frame("run", hm, c, "main"), TriggerFrame(hm, ph, c)>>
         /\ trace' = Append(tr, Ev("begin", c, hm, ph, 0, None))

\* The main coroutine is done: the loop stops after one more pass over the
\* callbacks that were ready when it finished.
RunMainDone ==
    /\ Running("run", "main")
    /\ stack' = [stack EXCEPT ![Len(stack)] =
                    [@ EXCEPT !.pc = "drain", !.i = Len(ready), !.k = ret.kind, !.v = ret.val]]
    /\ ret' = NoRet
    /\ UNCHANGED <<objs, heap, ctxs, ready, now, calls, trace>>

\* One task created while the main coroutine ran gets its first step.
RunTask ==
    /\ Running("run", "drain")
    /\ Top.i > 0
    /\ LET t == Head(ready) IN
       /\ stack' = Below \o <<[Top EXCEPT !.pc = "task", !.i = @ - 1],
                              TriggerFrame(t.o, t.ph, t.c)>>
       /\ trace' = Append(trace, Ev("begin", t.c, t.o, t.ph, 0, None))
    /\ ready' = Tail(ready)
    /\ ret' = NoRet
    /\ UNCHANGED <<objs, heap, ctxs, now, calls>>

\* The task finished; what it returned or raised stays in the task.
RunTaskDone ==
    /\ Running("run", "task")
    /\ stack' = [stack EXCEPT ![Len(stack)].pc = "drain"]
    /\ ret' = NoRet
    /\ UNCHANGED <<objs, heap, ctxs, ready, now, calls, trace>>

\* asyncio.run cancels the tasks that never started, closes the loop and
\* returns what the main coroutine returned or raised.
RunClose ==
    /\ Running("run", "drain")
    /\ Top.i = 0
    /\ stack' = Below
    /\ ret' = [kind |-> Top.k, val |-> Top.v]
    /\ trace' = trace \o [j \in 1..Len(ready) |->
                            Ev("cancel", ready[j].c, ready[j].o, ready[j].ph, 0, None)]
    /\ ready' = <<>>
    /\ UNCHANGED <<objs, heap, ctxs, now, calls>>

\* ------------------------------------------------------------ HookManager
Hooks(f) == objs[f.o].hooks[f.ph]
Hook(kind) == Running("trigger", "hooks") /\ Top.i <= Len(Hooks(Top)) /\ Hooks(Top)[Top.i] = kind
HookEvent == Append(trace, Ev("hook", Top.c, Top.o, Top.ph, Top.i, None))

\* context.get("exception")
GetException(c) == IF ctxs[c].hasExc THEN ctxs[c].exc ELSE None

\* raise context.get("exception") from hook_error
HookReraised(tr) ==
    /\ stack' = Below
    /\ ret' = Raise(PyRaise(GetException(Top.c), Top.o))
    /\ trace' = Append(tr, Ev("abort", Top.c, Top.o, Top.ph, Top.i, None))

\* trigger, lines 60-66: a hook raised.  Only on_error re-raises.
HookRaised(tr) ==
    IF Top.ph = "on_error"
    THEN /\ stack' = Below
         /\ ret' = Raise(PyRaise(GetException(Top.c), Top.o))
         /\ trace' = Append(tr, Ev("abort", Top.c, Top.o, Top.ph, Top.i, None))
    ELSE /\ stack' = [stack EXCEPT ![Len(stack)] = [@ EXCEPT !.i = @ + 1, !.pc = "hooks"]]
         /\ ret' = NoRet
         /\ trace' = tr

HookReturned(tr) ==
    /\ stack' = [stack EXCEPT ![Len(stack)] = [@ EXCEPT !.i = @ + 1, !.pc = "hooks"]]
    /\ ret' = NoRet
    /\ trace' = tr

HookLog ==
    /\ Hook("log")
    /\ HookReturned(HookEvent)
    /\ UNCHANGED <<objs, heap, ctxs, ready, now, calls>>

HookRaise ==
    /\ Hook("raise")
    /\ HookRaised(HookEvent)
    /\ UNCHANGED <<objs, heap, ctxs, ready, now, calls>>

\* a recovery hook: context.pop("exception"); context["result"] = value
HookRecover ==
    /\ Hook("recover")
    /\ ctxs' = [ctxs EXCEPT ![Top.c] =
                  [@ EXCEPT !.hasExc = FALSE, !.hasRes = TRUE, !.res = Value(Top.o, 0)]]
    /\ HookReturned(HookEvent)
    /\ UNCHANGED <<objs, heap, ready, now, calls>>

\* RetryHandler.retry_on_error(context), lines 88-101
HookRetry ==
    /\ Hook("retry")
    /\ stack' = Below \o <<[Top EXCEPT !.pc = "wait"],
                           [Frame("retry", Top.o, Top.c, "loop") EXCEPT
                               !.v = GetException(Top.c), !.d = Delay]>>
    /\ trace' = HookEvent
    /\ ret' = NoRet
    /\ UNCHANGED <<objs, heap, ctxs, ready, now, calls>>

\* a hook that ran other frames came back
TriggerHookReturned ==
    /\ Running("trigger", "wait")
    /\ ret.kind # "raise"
    /\ HookReturned(trace)
    /\ UNCHANGED <<objs, heap, ctxs, ready, now, calls>>

TriggerHookRaised ==
    /\ Running("trigger", "wait")
    /\ ret.kind = "raise"
    /\ HookRaised(trace)
    /\ UNCHANGED <<objs, heap, ctxs, ready, now, calls>>

TriggerDone ==
    /\ Running("trigger", "hooks")
    /\ Top.i > Len(Hooks(Top))
    /\ stack' = Below
    /\ ret' = NoRet
    /\ trace' = Append(trace, Ev("end", Top.c, Top.o, Top.ph, 0, None))
    /\ UNCHANGED <<objs, heap, ctxs, ready, now, calls>>

\* ------------------------------------------------------------ invocation
\* The context built by __call__ (action.py 40-46, option.py 70-76).  t0, sync,
\* parent and via are history: when and by whom the invocation was made.
Context(o, args, parent, via, t, sync) ==
    [obj |-> o, args |-> args, hasExc |-> FALSE, exc |-> None, hasRes |-> FALSE,
     res |-> None, duration |-> NoDuration, t0 |-> t, sync |-> sync,
     parent |-> parent, via |-> via]

\* target(*args) at time t from the frames stk: lines 40-47, up to _start_timer
Call(stk, target, args, parent, via, t, tr) ==
    LET c == Len(ctxs) + 1 IN
    /\ ctxs' = Append(ctxs, Context(target, args, parent, via, t, ~InLoop(stk)))
    /\ heap' = [heap EXCEPT ![target].start_time = t]
    /\ now' = t + 1
    /\ stack' = Append(stk, Frame("call", target, c, "before"))
    /\ trace' = Append(tr, Ev("call", c, target, "", 0, None))

\* The arguments are opaque to the runtime, which only passes them on: each
\* invocation by the environment brings arguments of its own.
ArgValues == {calls + 1}

\* the environment invokes the root object: root(*a)
Invoke(a) ==
    /\ stack = <<>>
    /\ calls < MaxCalls
    /\ calls' = calls + 1
    /\ Call(<<>>, 1, a, 0, "env", now, trace)
    /\ ret' = NoRet
    /\ UNCHANGED <<objs, ready>>

Resume(pc) == [stack EXCEPT ![Len(stack)].pc = pc]

\* line 49 / option.py 79
CallBefore ==
    /\ Running("call", "before")
    /\ run_async(Resume("run"), Top.o, "before", Top.c, trace)
    /\ ret' = NoRet
    /\ UNCHANGED <<objs, heap, ctxs, now, calls>>

\* The body returned out (lines 51-52) or raised it (line 53).
BodyEnds(out, raised, tr) ==
    /\ ctxs' = IF raised THEN ctxs
               ELSE [ctxs EXCEPT ![Top.c] = [@ EXCEPT !.hasRes = TRUE, !.res = out]]
    /\ stack' = [stack EXCEPT ![Len(stack)] =
                    [@ EXCEPT !.pc = IF raised THEN "except" ELSE "finally",
                              !.k = IF raised THEN "raise" ELSE "return",
                              !.v = out]]
    /\ trace' = Append(tr, Ev("ran", Top.c, Top.o, "", 0, out))
    /\ ret' = NoRet

\* line 50: self._run(*args, **kwargs) is entered
Run == Append(trace, Ev("run", Top.c, Top.o, "", 0, None))

\* the user's callable, called for the (ncalls + 1)-th time
fn(o) ==
    LET n == heap[o].ncalls + 1 IN
    IF objs[o].fn.always \/ n <= objs[o].fn.failFirst
    THEN Exc("Error", o, n) ELSE Value(o, n)

\* Action._run: asyncio.run(fn()) for a coroutine function, which a running
\* loop refuses; fn() otherwise.
ActionRun ==
    /\ Running("call", "run")
    /\ objs[Top.o].kind = "Action"
    /\ LET o == Top.o
           refused == objs[o].fn.isAsync /\ InLoop(stack)
           out == IF refused THEN Exc("RuntimeError", o, heap[o].ncalls) ELSE fn(o)
       IN /\ heap' = IF refused THEN heap ELSE [heap EXCEPT ![o].ncalls = @ + 1]
          /\ BodyEnds(out, IsExc(out), Append(Run, Ev("body", Top.c, o, "", 0, out)))
    /\ UNCHANGED <<objs, ready, now, calls>>

\* ChainedAction._run, line 112
ChainedActionRun ==
    /\ Running("call", "run")
    /\ objs[Top.o].kind = "ChainedAction"
    /\ stack' = Resume("ran") \o <<[Frame("chain", Top.o, Top.c, "loop") EXCEPT !.i = 1]>>
    /\ trace' = Run
    /\ ret' = NoRet
    /\ UNCHANGED <<objs, heap, ctxs, ready, now, calls>>

\* ActionGroup._run: asyncio.run(self._run_async(...)).  A running loop refuses
\* it; otherwise _run_async stops at line 160, where trigger is called with a
\* keyword it does not take, before any child is launched.
ActionGroupRun ==
    /\ Running("call", "run")
    /\ objs[Top.o].kind = "ActionGroup"
    /\ LET out == IF InLoop(stack) THEN Exc("RuntimeError", Top.o, 0)
                  ELSE Exc("TypeError", Top.o, 0)
       IN BodyEnds(out, TRUE, Run)
    /\ UNCHANGED <<objs, heap, ready, now, calls>>

\* Option._execute_action with a BaseAction: self.action(*args, **kwargs)
OptionExecuteAction ==
    /\ Running("call", "run")
    /\ objs[Top.o].kind = "Option"
    /\ objs[Top.o].actions # <<>>
    /\ Call(Resume("ran"), objs[Top.o].actions[1], ctxs[Top.c].args, Top.c, "option", now, Run)
    /\ ret' = NoRet
    /\ UNCHANGED <<objs, ready, calls>>

\* Option._execute_action with a raw callable: self.action(), then set_result
OptionExecuteCallable ==
    /\ Running("call", "run")
    /\ objs[Top.o].kind = "Option"
    /\ objs[Top.o].actions = <<>>
    /\ LET o == Top.o
           out == fn(o)
       IN /\ heap' = [heap EXCEPT ![o] = [@ EXCEPT !.ncalls = @ + 1,
                                         !.result = IF IsExc(out) THEN @ ELSE out]]
          /\ BodyEnds(out, IsExc(out), Append(Run, Ev("body", Top.c, o, "", 0, out)))
    /\ UNCHANGED <<objs, ready, now, calls>>

\* the frames a body pushed have returned
CallBodyReturned ==
    /\ Running("call", "ran")
    /\ ret.kind = "return"
    /\ heap' = IF objs[Top.o].kind = "Option"
               THEN [heap EXCEPT ![Top.o].result = ret.val] ELSE heap
    /\ BodyEnds(ret.val, FALSE, trace)
    /\ UNCHANGED <<objs, ready, now, calls>>

CallBodyRaised ==
    /\ Running("call", "ran")
    /\ ret.kind = "raise"
    /\ BodyEnds(ret.val, TRUE, trace)
    /\ UNCHANGED <<objs, heap, ready, now, calls>>

\* lines 54-55: context["exception"] = error; run_async(trigger("on_error"))
CallOnError ==
    /\ Running("call", "except")
    /\ ctxs' = [ctxs EXCEPT ![Top.c] = [@ EXCEPT !.hasExc = TRUE, !.exc = Top.v]]
    /\ run_async(Resume("handled"), Top.o, "on_error", Top.c, trace)
    /\ ret' = NoRet
    /\ UNCHANGED <<objs, heap, now, calls>>

Pending(kind, v) ==
    [stack EXCEPT ![Len(stack)] = [@ EXCEPT !.pc = "finally", !.k = kind, !.v = v]]

\* trigger("on_error") raised: that exception leaves the except block
CallOnErrorRaised ==
    /\ Running("call", "handled")
    /\ ret.kind = "raise"
    /\ stack' = Pending("raise", ret.val)
    /\ ret' = NoRet
    /\ UNCHANGED <<objs, heap, ctxs, ready, now, calls, trace>>

\* what a recovered invocation returns: context.get("result") for an action
\* (line 58), self.get_result() for an option (option.py 89)
Recovered(f) ==
    IF objs[f.o].kind = "Option" THEN heap[f.o].result
    ELSE IF ctxs[f.c].hasRes THEN ctxs[f.c].res ELSE None

\* lines 56-58
CallRecovered ==
    /\ Running("call", "handled")
    /\ ret.kind # "raise"
    /\ ~ctxs[Top.c].hasExc
    /\ stack' = Pending("return", Recovered(Top))
    /\ ret' = NoRet
    /\ UNCHANGED <<objs, heap, ctxs, ready, now, calls, trace>>

\* line 59
CallReraise ==
    /\ Running("call", "handled")
    /\ ret.kind # "raise"
    /\ ctxs[Top.c].hasExc
    /\ stack' = Pending("raise", Top.v)
    /\ ret' = NoRet
    /\ UNCHANGED <<objs, heap, ctxs, ready, now, calls, trace>>

\* TimingMixin._stop_timer
stop_timer(o) ==
    [heap EXCEPT ![o] = [@ EXCEPT !.end_time = now, !.duration = now - heap[o].start_time]]

\* lines 61-64
CallFinally ==
    /\ Running("call", "finally")
    /\ heap' = stop_timer(Top.o)
    /\ now' = now + 1
    /\ ctxs' = [ctxs EXCEPT ![Top.c].duration = heap'[Top.o].duration]
    /\ IF ~ctxs[Top.c].hasExc
       THEN run_async(Resume("teardown"), Top.o, "after", Top.c, trace)
       ELSE /\ stack' = Resume("teardown")
            /\ UNCHANGED <<ready, trace>>
    /\ ret' = NoRet
    /\ UNCHANGED <<objs, calls>>

\* line 65
CallTeardown ==
    /\ Running("call", "teardown")
    /\ run_async(Resume("end"), Top.o, "on_teardown", Top.c, trace)
    /\ ret' = NoRet
    /\ UNCHANGED <<objs, heap, ctxs, now, calls>>

\* the invocation returns or raises
CallEnd ==
    /\ Running("call", "end")
    /\ stack' = Below
    /\ ret' = [kind |-> Top.k, val |-> Top.v]
    /\ trace' = Append(trace, Ev(Top.k, Top.c, Top.o, "", 0, Top.v))
    /\ UNCHANGED <<objs, heap, ctxs, ready, now, calls>>

\* ------------------------------------------------------------ RetryHandler
\* lines 103-108: one more attempt: sleep, then target(*args, **kwargs)
RetryAttempt ==
    /\ Running("retry", "loop")
    /\ Top.i < objs[Top.o].max_retries
    /\ Call(Below \o <<[Top EXCEPT !.pc = "wait", !.i = @ + 1]>>,
            ctxs[Top.c].obj, ctxs[Top.c].args, Top.c, "retry", now + Top.d, trace)
    /\ ret' = NoRet
    /\ UNCHANGED <<objs, ready, calls>>

\* target.get_duration() or 0.0
DurationOrZero(o) == IF heap[o].duration = NoDuration THEN 0 ELSE heap[o].duration

\* lines 109-121: the attempt returned
RetrySucceeded ==
    /\ Running("retry", "wait")
    /\ ret.kind = "return"
    /\ LET target == ctxs[Top.c].obj IN
       /\ heap' = IF objs[target].kind = "Option"
                  THEN [heap EXCEPT ![target].result = ret.val] ELSE heap
       /\ ctxs' = [ctxs EXCEPT ![Top.c] =
                     [@ EXCEPT !.hasRes = TRUE, !.res = ret.val,
                               !.duration = DurationOrZero(target), !.hasExc = FALSE]]
       /\ run_async(Below, target, "after", Top.c, trace)
    /\ ret' = NoRet
    /\ UNCHANGED <<objs, now, calls>>

\* lines 122-125: the attempt raised
RetryFailed ==
    /\ Running("retry", "wait")
    /\ ret.kind = "raise"
    /\ stack' = [stack EXCEPT ![Len(stack)] =
                    [@ EXCEPT !.pc = "loop", !.v = ret.val, !.d = @ * Backoff]]
    /\ ret' = NoRet
    /\ UNCHANGED <<objs, heap, ctxs, ready, now, calls, trace>>

\* raise error, the exception the handler was entered with
RetryRaisesOriginal ==
    /\ Running("retry", "loop")
    /\ Top.i >= objs[Top.o].max_retries
    /\ stack' = Below
    /\ ret' = Raise(PyRaise(GetException(Top.c), Top.o))
    /\ UNCHANGED <<objs, heap, ctxs, ready, now, calls, trace>>

\* lines 127-128: raise last_error
RetryExhausted ==
    /\ Running("retry", "loop")
    /\ Top.i >= objs[Top.o].max_retries
    /\ stack' = Below
    /\ ret' = Raise(PyRaise(Top.v, Top.o))
    /\ UNCHANGED <<objs, heap, ctxs, ready, now, calls, trace>>

\* ------------------------------------------------------------ ChainedAction
\* lines 113-115: the next child is invoked with the chain's arguments
ChainNext ==
    /\ Running("chain", "loop")
    /\ Top.i <= Len(objs[Top.o].actions)
    /\ Call(Resume("wait"), objs[Top.o].actions[Top.i], ctxs[Top.c].args, Top.c, "chain", now,
            trace)
    /\ ret' = NoRet
    /\ UNCHANGED <<objs, ready, calls>>

\* line 116: rollback_stack.append(action)
ChainChildReturned ==
    /\ Running("chain", "wait")
    /\ ret.kind = "return"
    /\ stack' = [stack EXCEPT ![Len(stack)] =
                    [@ EXCEPT !.pc = "loop", !.i = @ + 1,
                              !.s = Append(@, objs[Top.o].actions[Top.i])]]
    /\ ret' = NoRet
    /\ UNCHANGED <<objs, heap, ctxs, ready, now, calls, trace>>

\* except Exception: raise, with no rollback
ChainChildReraised ==
    /\ Running("chain", "wait")
    /\ ret.kind = "raise"
    /\ stack' = [stack EXCEPT ![Len(stack)] =
                    [@ EXCEPT !.pc = "rollback", !.v = ret.val, !.i = 0]]
    /\ trace' = Append(trace, Ev("child_raised", Top.c, Top.o, "", Top.i, ret.val))
    /\ ret' = NoRet
    /\ UNCHANGED <<objs, heap, ctxs, ready, now, calls>>

\* lines 117-118: the child raised; _rollback walks reversed(rollback_stack)
ChainChildRaised ==
    /\ Running("chain", "wait")
    /\ ret.kind = "raise"
    /\ stack' = [stack EXCEPT ![Len(stack)] =
                    [@ EXCEPT !.pc = "rollback", !.v = ret.val, !.i = Len(Top.s)]]
    /\ trace' = Append(trace, Ev("child_raised", Top.c, Top.o, "", Top.i, ret.val))
    /\ ret' = NoRet
    /\ UNCHANGED <<objs, heap, ctxs, ready, now, calls>>

\* as if a composite child were rolled back as well
HasRollbackOrChildren(a) == objs[a].rollback # "none" \/ objs[a].actions # <<>>

\* as if only hasattr(action, "rollback") were tested
HasRollbackAttribute(a) == objs[a].kind = "Action"

\* hasattr(action, "rollback") and action.rollback
HasRollback(a) == objs[a].kind = "Action" /\ objs[a].rollback # "none"

\* _rollback without its try: a rollback that raises ends the loop and its
\* exception is the one that leaves _run
rollback_unguarded ==
    /\ Running("chain", "rollback")
    /\ Top.i >= 1
    /\ stack' = [stack EXCEPT ![Len(stack)] =
                    IF objs[Top.s[Top.i]].rollback = "raises"
                    THEN [@ EXCEPT !.i = 0, !.v = Exc("RollbackError", Top.s[Top.i], 0)]
                    ELSE [@ EXCEPT !.i = @ - 1]]
    /\ trace' = IF HasRollback(Top.s[Top.i])
                THEN Append(trace, Ev("rollback", Top.c, Top.s[Top.i], "", Top.i,
                                      [t |-> "args", src |-> 0, n |-> ctxs[Top.c].args]))
                ELSE trace
    /\ ret' = NoRet
    /\ UNCHANGED <<objs, heap, ctxs, ready, now, calls>>

\* _rollback, lines 128-134: one step of the loop; a rollback that raises is
\* reported and the loop goes on
rollback ==
    /\ Running("chain", "rollback")
    /\ Top.i >= 1
    /\ stack' = [stack EXCEPT ![Len(stack)].i = @ - 1]
    /\ trace' = IF HasRollback(Top.s[Top.i])
                THEN Append(trace, Ev("rollback", Top.c, Top.s[Top.i], "", Top.i,
                                      [t |-> "args", src |-> 0, n |-> ctxs[Top.c].args]))
                ELSE trace
    /\ ret' = NoRet
    /\ UNCHANGED <<objs, heap, ctxs, ready, now, calls>>

\* line 119: raise
ChainRaise ==
    /\ Running("chain", "rollback")
    /\ Top.i = 0
    /\ stack' = Below
    /\ ret' = Raise(Top.v)
    /\ UNCHANGED <<objs, heap, ctxs, ready, now, calls, trace>>

\* line 120: return None
ChainReturn ==
    /\ Running("chain", "loop")
    /\ Top.i > Len(objs[Top.o].actions)
    /\ stack' = Below
    /\ ret' = Return(None)
    /\ UNCHANGED <<objs, heap, ctxs, ready, now, calls, trace>>

\* ------------------------------------------------------------ specification
Next ==
    \/ \E a \in ArgValues : Invoke(a)
    \/ CallBefore
    \/ ActionRun
    \/ ChainedActionRun
    \/ ActionGroupRun
    \/ OptionExecuteAction
    \/ OptionExecuteCallable
    \/ CallBodyReturned
    \/ CallBodyRaised
    \/ CallOnError
    \/ CallOnErrorRaised
    \/ CallRecovered
    \/ CallReraise
    \/ CallFinally
    \/ CallTeardown
    \/ CallEnd
    \/ HookLog
    \/ HookRaise
    \/ HookRecover
    \/ HookRetry
    \/ TriggerHookReturned
    \/ TriggerHookRaised
    \/ TriggerDone
    \/ RunMainDone
    \/ RunTask
    \/ RunTaskDone
    \/ RunClose
    \/ RetryAttempt
    \/ RetrySucceeded
    \/ RetryFailed
    \/ RetryExhausted
    \/ ChainNext
    \/ ChainChildReturned
    \/ ChainChildRaised
    \/ rollback
    \/ ChainRaise
    \/ ChainReturn

Spec == Init /\ [][Next]_vars

\* ------------------------------------------------------------ nested composites
\* A ChainedAction whose first child is itself a ChainedAction or an
\* ActionGroup of two leaves, followed by two leaves: object 1 is the outer
\* chain, 2 the inner composite, 3 and 4 its leaves, 5 and 6 the outer
\* chain's second and third child.
Composite(kind, acts, e) ==
    Object(kind, NoFn, "none", acts, HookManager(<<"log">>, <<"log">>, e, <<"log">>), 0)

NestedConfigs ==
    { <<Composite("ChainedAction", <<2, 5, 6>>, eo), Composite(kind, <<3, 4>>, ei),
        Child(p3), Child(p4), Child(p5), Child(p6)>> :
        eo \in {<<>>, <<"recover">>}, kind \in {"ChainedAction", "ActionGroup"},
        ei \in {<<>>, <<"recover">>},
        p3 \in {"okrb", "okrbx"}, p4 \in {"okrb", "fail"},
        p5 \in {"ok", "okrb"}, p6 \in {"ok", "fail"} }

NestedInit ==
    /\ objs \in NestedConfigs
    /\ heap = [o \in 1..Len(objs) |-> NewObject]
    /\ ctxs = <<>>
    /\ stack = <<>>
    /\ ready = <<>>
    /\ ret = NoRet
    /\ now = 0
    /\ calls = 0
    /\ trace = <<>>

NestedNext ==
    \/ \E a \in ArgValues : Invoke(a)
    \/ CallBefore
    \/ ActionRun
    \/ ChainedActionRun
    \/ ActionGroupRun
    \/ CallBodyReturned
    \/ CallBodyRaised
    \/ CallOnError
    \/ CallRecovered
    \/ CallReraise
    \/ CallFinally
    \/ CallTeardown
    \/ CallEnd
    \/ HookLog
    \/ HookRecover
    \/ TriggerDone
    \/ RunMainDone
    \/ RunClose
    \/ ChainNext
    \/ ChainChildReturned
    \/ ChainChildRaised
    \/ rollback
    \/ ChainRaise
    \/ ChainReturn

NestedSpec == NestedInit /\ [][NestedNext]_vars

\* ------------------------------------------------------------ CircuitBreaker
MaxFailures == 2        \* CircuitBreaker.max_failures ranges over 1..MaxFailures

\* CircuitBreaker.__init__: reset_timeout = 10, open_until = None
ResetTimeout == 10
\* a reset_timeout no longer than RetryHandler's first delay
ShortTimeout == 1
NotOpen == -1

\* An object whose hooks are bound methods of one CircuitBreaker: the
\* breaker's parameters are kept with the object, its failures and open_until
\* with the object's mutable fields.
Guarded(obj, mf, rt) == obj @@ [max_failures |-> mf, reset_timeout |-> rt]
NewBreaker == [failures |-> 0, open_until |-> NotOpen]

BreakerOnError == {<<"breaker_error">>, <<"retry", "breaker_error">>}
BreakerAfter == {<<"log">>, <<"breaker_after">>}
BreakerFns == {Fn(k, FALSE, FALSE) : k \in 0..MaxFail} \cup {Fn(0, TRUE, FALSE)}

\* An Action, or an Option over a raw callable, guarded as in main.py: the
\* breaker's before_hook, after_hook and error_hook, the latter alone or
\* after RetryHandler.retry_on_error.
BreakerConfigs ==
    { <<Guarded(Object(kind, f, "none", <<>>,
                       HookManager(<<"breaker_before">>, a, e, <<"log">>), mr), mf, rt)>> :
        kind \in {"Action", "Option"}, f \in BreakerFns, a \in BreakerAfter,
        e \in BreakerOnError, mr \in 1..MaxRetries, mf \in 1..MaxFailures,
        rt \in {ShortTimeout, ResetTimeout} }

BreakerInit ==
    /\ objs \in BreakerConfigs
    /\ heap = [o \in 1..Len(objs) |-> NewObject @@ NewBreaker]
    /\ ctxs = <<>>
    /\ stack = <<>>
    /\ ready = <<>>
    /\ ret = NoRet
    /\ now = 0
    /\ calls = 0
    /\ trace = <<>>

\* time.time() < self.open_until
IsOpenAt(o, t) == heap[o].open_until # NotOpen /\ t < heap[o].open_until

\* CircuitBreaker.before_hook: raise CircuitBreakerOpen while open_until is in
\* the future; once it has passed, close the circuit
HookBreakerBefore ==
    /\ Hook("breaker_before")
    /\ LET o == Top.o IN
       IF IsOpenAt(o, now)
       THEN /\ heap' = heap
            /\ HookRaised(Append(HookEvent,
                   Ev("refused", Top.c, o, Top.ph, Top.i, Exc("CircuitBreakerOpen", o, 0))))
       ELSE /\ heap' = IF heap[o].open_until # NotOpen
                       THEN [heap EXCEPT ![o] = [@ EXCEPT !.failures = 0, !.open_until = NotOpen]]
                       ELSE heap
            /\ HookReturned(HookEvent)
    /\ UNCHANGED <<objs, ctxs, ready, now, calls>>

\* CircuitBreaker.error_hook: count the failure, open at max_failures
HookBreakerError ==
    /\ Hook("breaker_error")
    /\ LET o == Top.o
           n == heap[o].failures + 1
           opens == n >= objs[o].max_failures
       IN /\ heap' = [heap EXCEPT ![o] =
                        [@ EXCEPT !.failures = n,
                                  !.open_until = IF opens THEN now + objs[o].reset_timeout
                                                 ELSE @]]
          /\ HookReturned(Append(HookEvent,
                 Ev(IF opens THEN "opened" ELSE "counted", Top.c, o, Top.ph, Top.i,
                    [t |-> "failures", src |-> o, n |-> n])))
    /\ UNCHANGED <<objs, ctxs, ready, now, calls>>

\* CircuitBreaker.after_hook
HookBreakerAfter ==
    /\ Hook("breaker_after")
    /\ heap' = [heap EXCEPT ![Top.o].failures = 0]
    /\ HookReturned(HookEvent)
    /\ UNCHANGED <<objs, ctxs, ready, now, calls>>

\* between two invocations the clock reaches open_until
BreakerTimeout ==
    /\ stack = <<>>
    /\ IsOpenAt(1, now)
    /\ now' = heap[1].open_until
    /\ UNCHANGED <<objs, heap, ctxs, stack, ready, ret, calls, trace>>

BreakerNext ==
    \/ \E a \in ArgValues : Invoke(a)
    \/ BreakerTimeout
    \/ CallBefore
    \/ ActionRun
    \/ OptionExecuteCallable
    \/ CallOnError
    \/ CallOnErrorRaised
    \/ CallRecovered
    \/ CallReraise
    \/ CallFinally
    \/ CallTeardown
    \/ CallEnd
    \/ HookLog
    \/ HookRetry
    \/ HookBreakerBefore
    \/ HookBreakerError
    \/ HookBreakerAfter
    \/ TriggerHookReturned
    \/ TriggerHookRaised
    \/ TriggerDone
    \/ RunMainDone
    \/ RunTask
    \/ RunTaskDone
    \/ RunClose
    \/ RetryAttempt
    \/ RetrySucceeded
    \/ RetryFailed
    \/ RetryExhausted

BreakerSpec == BreakerInit /\ [][BreakerNext]_vars

\* ------------------------------------------------------------ Menu (menu.py)
MaxOptions == 2         \* options in a Menu's table
MaxMenuCalls == 3       \* calls made on the Menu by the environment

\* The keys the environment uses, and str.upper() on them.
Keys == {"a", "A", "q", "0", "zz"}
Upper(k) ==
    CASE k \in {"a", "A"} -> "A"
      [] k = "q" -> "Q"
      [] k = "zz" -> "ZZ"
      [] OTHER -> k

\* menu.py Option: key, action, confirm, its three Hooks, _result.  The action
\* is named by what it does when called ("ok" returns a value, "fail" raises,
\* "none" is the default lambda: None); ncalls counts its calls.
MenuOption(key, action, confirm, b, a, e) ==
    [key |-> key, action |-> action, confirm |-> confirm,
     before_action |-> b, after_action |-> a, on_error |-> e,
     result |-> None, ncalls |-> 0]

\* Menu._get_back_option
DefaultBackOption == MenuOption("0", "none", FALSE, <<>>, <<>>, <<>>)

\* The keyword arguments the environment passes to add_option: an action
\* that returns, or one that raises and asks for confirmation.
OptionProfiles == {"ok", "fail"}
Profile(key, p) ==
    MenuOption(key, p, p = "fail", <<"log">>, <<"raise", "log">>, <<"log">>)

\* Menu.__init__: the flags given at construction
MenuObjects ==
    { <<[kind |-> "Menu", continue_on_error_prompt |-> cp,
         run_hooks_on_back_option |-> hb, never_confirm |-> nc]>> :
        cp \in BOOLEAN, hb \in BOOLEAN, nc \in {FALSE} }   \* never_confirm: the default

\* Menu.__init__: the mutable fields.  options is the CaseInsensitiveDict, in
\* insertion order: <<stored key, Option>>.
NewMenu(ob) ==
    [options |-> <<>>, back_option |-> DefaultBackOption,
     before_action |-> <<>>, after_action |-> <<>>, on_error |-> <<>>,
     never_confirm |-> ob.never_confirm, last_run_option |-> "none"]

\* CaseInsensitiveDict.__contains__
Contains(options, key) == \E j \in 1..Len(options) : options[j][1] = Upper(key)
\* CaseInsensitiveDict.__setitem__
SetItem(options, key, value) ==
    IF Contains(options, key)
    THEN [j \in 1..Len(options) |->
            IF options[j][1] = Upper(key) THEN <<Upper(key), value>> ELSE options[j]]
    ELSE Append(options, <<Upper(key), value>>)
\* CaseInsensitiveDict.get: the position of the entry, 0 for None
GetItem(options, key) ==
    IF Contains(options, key)
    THEN CHOOSE j \in 1..Len(options) : options[j][1] = Upper(key)
    ELSE 0

\* what a call on the Menu gives: the Menu afterwards, what the call returned
\* or raised, and what it showed
Outcome(m, out, evs) == [menu |-> m, out |-> out, events |-> evs]
MenuExc(type, key) == [t |-> type, src |-> 0, n |-> 0, key |-> key, cause |-> None]

\* key in self.options
KeyInTable(m, key) == Contains(m.options, key)
\* Menu._validate_option_key raises
KeyTaken(m, key) ==
    Contains(m.options, key) \/ Upper(key) = Upper(m.back_option.key)

\* Menu.add_option
add_option(m, key, opt) ==
    IF KeyTaken(m, key)
    THEN Outcome(m, Raise(MenuExc("OptionAlreadyExistsError", key)), <<>>)
    ELSE Outcome([m EXCEPT !.options = SetItem(@, key, opt)], Return(None), <<>>)

\* Menu.add_options: add_option for each entry, up to the first that raises
RECURSIVE add_options(_, _)
add_options(m, entries) ==
    IF entries = <<>> THEN Outcome(m, Return(None), <<>>)
    ELSE LET first == add_option(m, Head(entries).key, Head(entries))
         IN IF first.out.kind = "raise" THEN first
            ELSE add_options(first.menu, Tail(entries))

\* Menu.add_submenu: validate, then add_option(key, description, submenu.run)
add_submenu(m, key) ==
    IF KeyTaken(m, key)
    THEN Outcome(m, Raise(MenuExc("OptionAlreadyExistsError", key)), <<>>)
    ELSE add_option(m, key, MenuOption(key, "ok", FALSE, <<>>, <<>>, <<>>))

\* Menu.update_back_option
update_back_option(m, key, action, confirm) ==
    IF KeyTaken(m, key)
    THEN Outcome(m, Raise(MenuExc("OptionAlreadyExistsError", key)), <<>>)
    ELSE Outcome([m EXCEPT !.back_option = MenuOption(key, action, confirm, <<>>, <<>>, <<>>)],
                 Return(None), <<>>)

\* Hooks.add_hook: a hook is added once
add_hook(hooks, hook) ==
    IF \E i \in 1..Len(hooks) : hooks[i] = hook THEN hooks ELSE Append(hooks, hook)

\* ---- dispatch
\* An option is selected by its place: 0 the back option, j >= 1 the j-th
\* entry of the table, -1 for None.
\* self.options.get(choice, self.back_option)
get_or_back(m, choice) ==
    IF GetItem(m.options, choice) = 0 THEN 0 ELSE GetItem(m.options, choice)
\* Menu.get_option
get_option(m, choice) ==
    IF Upper(choice) = Upper(m.back_option.key) THEN 0
    ELSE IF GetItem(m.options, choice) = 0 THEN -1 ELSE GetItem(m.options, choice)

OptionAt(m, j) == IF j = 0 THEN m.back_option ELSE m.options[j][2]
SetOption(m, j, opt) ==
    IF j = 0 THEN [m EXCEPT !.back_option = opt]
    ELSE [m EXCEPT !.options[j] = <<@[1], opt>>]

\* True and False as Python values
Bool(b) == [t |-> "value", src |-> 0, n |-> IF b THEN 1 ELSE 0]

\* Hooks.run_hooks: every hook is called, what a hook raises is logged
run_hooks(hooks, j, ph) ==
    [i \in 1..Len(hooks) |->
        Ev("hook", 0, j, ph, i, IF hooks[i] = "raise" THEN Exc("HookError", j, i) ELSE None)]

\* self.run_hooks_on_back_option
run_hooks_on_back_option(ob, j) == ob.run_hooks_on_back_option
\* Menu._should_hooks_run
should_hooks_run(ob, j) == j # 0 \/ ob.run_hooks_on_back_option

\* selected_option.confirm
OptionConfirm(m, j) == OptionAt(m, j).confirm
\* Menu._should_run_action asks the user
AsksConfirm(m, j) == OptionAt(m, j).confirm /\ ~m.never_confirm
Prompt(what, j) == <<Ev("prompt", 0, j, what, 0, None)>>

\* option.action() called for the (ncalls + 1)-th time
CallAction(opt, j) ==
    CASE opt.action = "ok" -> Value(j, opt.ncalls + 1)
      [] opt.action = "fail" -> Exc("Error", j, opt.ncalls + 1)
      [] OTHER -> None

\* Menu._handle_action_error: the hooks it runs and the prompt it makes
handle_action_error_events(ob, m, j) ==
    run_hooks(OptionAt(m, j).on_error, j, "on_error")
    \o run_hooks(m.on_error, j, "menu_on_error")
    \o (IF ob.continue_on_error_prompt /\ ~m.never_confirm
        THEN Prompt("continue", j) ELSE <<>>)
\* return self._never_confirm, whatever the user answers
never_confirm_only(ob, m, goOn) == m.never_confirm
\* Menu._handle_action_error: what it returns when the user answers goOn
handle_action_error(ob, m, goOn) ==
    IF ob.continue_on_error_prompt /\ ~m.never_confirm THEN goOn
    ELSE m.never_confirm

\* Menu.process_action with the user entering choice (a key the validator
\* accepts), answering yes to the confirmation and goOn after an error
process_action(ob, m0, choice, yes, goOn) ==
    LET j == get_option(m0, choice)
        m == [m0 EXCEPT !.last_run_option = Upper(choice)]
        opt == OptionAt(m, j)
        hooks == should_hooks_run(ob, j)
        asked == IF AsksConfirm(m, j) THEN Prompt("confirm", j) ELSE <<>>
        result == CallAction(opt, j)
        called == [opt EXCEPT !.ncalls = @ + 1]
        upto == asked
                \o (IF hooks THEN run_hooks(m.before_action, j, "menu_before") ELSE <<>>)
                \o run_hooks(opt.before_action, j, "before")
                \o <<Ev("action", 0, j, "", 0, result)>>
    IN IF AsksConfirm(m, j) /\ ~yes
       THEN Outcome(m, Return(Bool(TRUE)), asked)
       ELSE IF IsExc(result)
       THEN Outcome(SetOption(m, j, called),
                    Return(Bool(handle_action_error(ob, m, goOn))),
                    upto \o handle_action_error_events(ob, m, j))
       ELSE Outcome(SetOption(m, j, [called EXCEPT !.result = result]),
                    Return(Bool(j # 0)),
                    upto \o run_hooks(opt.after_action, j, "after")
                         \o (IF hooks THEN run_hooks(m.after_action, j, "menu_after") ELSE <<>>))

\* option.action() and nothing else
call_action(ob, m0, option_key, never_confirm, yes, goOn) ==
    LET j == get_option(m0, option_key)
    IN IF j = -1
       THEN Outcome(m0, Raise(MenuExc("MenuError", option_key)), <<>>)
       ELSE Outcome([m0 EXCEPT !.last_run_option = Upper(option_key)],
                    Return(CallAction(OptionAt(m0, j), j)),
                    <<Ev("action", 0, j, "", 0, CallAction(OptionAt(m0, j), j))>>)

\* Menu.run_headless(option_key, never_confirm); never_confirm is "unset" for None
run_headless(ob, m0, option_key, never_confirm, yes, goOn) ==
    LET j == get_option(m0, option_key)
        m == [m0 EXCEPT !.never_confirm = IF never_confirm = "unset" THEN @
                                          ELSE never_confirm = "true",
                        !.last_run_option = IF j = -1 THEN "none" ELSE Upper(option_key)]
    IN IF j = -1
       THEN Outcome(m, Raise(MenuExc("MenuError", option_key)), <<>>)
       ELSE
       LET opt == OptionAt(m, j)
           hooks == should_hooks_run(ob, j)
           asked == IF AsksConfirm(m, j) THEN Prompt("confirm", j) ELSE <<>>
           result == CallAction(opt, j)
           called == [opt EXCEPT !.ncalls = @ + 1]
           upto == asked
                   \o (IF hooks THEN run_hooks(m.before_action, j, "menu_before") ELSE <<>>)
                   \o run_hooks(opt.before_action, j, "before")
                   \o <<Ev("action", 0, j, "", 0, result)>>
       IN IF AsksConfirm(m, j) /\ ~yes
          THEN Outcome(m, Raise(MenuExc("MenuError", "cancelled")), asked)
          ELSE IF IsExc(result)
          THEN Outcome(SetOption(m, j, called),
                       IF handle_action_error(ob, m, goOn)
                       THEN Return(opt.result)
                       ELSE Raise([MenuExc("MenuError", "failed") EXCEPT !.cause = result]),
                       upto \o handle_action_error_events(ob, m, j))
          ELSE Outcome(SetOption(m, j, [called EXCEPT !.result = result]),
                       Return(result),
                       upto \o run_hooks(opt.after_action, j, "after")
                            \o (IF hooks THEN run_hooks(m.after_action, j, "menu_after") ELSE <<>>))

\* ---- the Menu and its environment
MenuInit ==
    /\ objs \in MenuObjects
    /\ heap = <<NewMenu(objs[1])>>
    /\ ctxs = <<>>
    /\ stack = <<>>
    /\ ready = <<>>
    /\ ret = NoRet
    /\ now = 0
    /\ calls = 0
    /\ trace = <<>>

TheMenu == heap[1]
AddKeys == Keys \ {"zz"}

\* the key entered at the prompt or given to run_headless
Entered(key) == [t |-> "key", src |-> 0, n |-> 0, key |-> key]

\* One call on the Menu: the Menu afterwards, what the call returned or
\* raised, and the history of this call (which method, with which key to
\* dispatch on, then what it showed).
MenuCall(name, arg, r) ==
    /\ calls < MaxMenuCalls
    /\ calls' = calls + 1
    /\ heap' = <<r.menu>>
    /\ ret' = r.out
    /\ trace' = <<Ev("call", 0, 0, name, 0, arg)>> \o r.events
    /\ UNCHANGED <<objs, ctxs, stack, ready, now>>

Room(n) == Len(TheMenu.options) + n <= MaxOptions

MenuAddOption(key, p) ==
    /\ Room(1) \/ KeyTaken(TheMenu, key)
    /\ MenuCall("add_option", None, add_option(TheMenu, key, Profile(key, p)))

MenuAddOptions(k1, k2) ==
    /\ Room(2)
    /\ MenuCall("add_options", None, add_options(TheMenu, <<Profile(k1, "ok"), Profile(k2, "fail")>>))

MenuAddSubmenu(key) ==
    /\ Room(1) \/ KeyTaken(TheMenu, key)
    /\ MenuCall("add_submenu", None, add_submenu(TheMenu, key))

\* The keyword arguments the environment passes to update_back_option: with
\* key "q" an action that returns a value and asks for confirmation, with
\* key "a" an action that raises, otherwise the defaults.
BackAction(key) ==
    CASE key = "q" -> "ok"
      [] key = "a" -> "fail"
      [] OTHER -> "none"

MenuUpdateBackOption(key, action, confirm) ==
    /\ key \in AddKeys
    /\ MenuCall("update_back_option", None, update_back_option(TheMenu, key, action, confirm))

\* Menu.add_before / add_after / add_on_error
MenuAddHook(ph, hook) ==
    /\ ph \in {"before_action", "after_action", "on_error"}
    /\ MenuCall("add_" \o ph, None,
                Outcome([TheMenu EXCEPT ![ph] = add_hook(@, hook)], Return(None), <<>>))

\* The user answers only what is asked: yes to the confirmation prompt of
\* option j, goOn to the prompt after an error of its action.
Answers(m, j, yes, goOn) ==
    /\ ~yes => AsksConfirm(m, j)
    /\ ~goOn => /\ ~(AsksConfirm(m, j) /\ ~yes)
                /\ IsExc(CallAction(OptionAt(m, j), j))
                /\ objs[1].continue_on_error_prompt /\ ~m.never_confirm

\* one pass of Menu.run's loop; the validator of the prompt accepts only the
\* back-option key and the keys of the table
MenuProcessAction(choice, yes, goOn) ==
    /\ get_option(TheMenu, choice) # -1
    /\ Answers(TheMenu, get_option(TheMenu, choice), yes, goOn)
    /\ MenuCall("process_action", Entered(choice), process_action(objs[1], TheMenu, choice, yes, goOn))

MenuRunHeadless(key, never_confirm, yes, goOn) ==
    /\ LET j == get_option(TheMenu, key)
           m == [TheMenu EXCEPT !.never_confirm = IF never_confirm = "unset" THEN @
                                                  ELSE never_confirm = "true"]
       IN IF j = -1 THEN yes /\ goOn ELSE Answers(m, j, yes, goOn)
    /\ MenuCall("run_headless", Entered(key), run_headless(objs[1], TheMenu, key, never_confirm, yes, goOn))

MenuNext ==
    \/ \E key \in AddKeys, p \in OptionProfiles : MenuAddOption(key, p)
    \/ \E k1, k2 \in AddKeys : MenuAddOptions(k1, k2)
    \/ \E key \in AddKeys : MenuAddSubmenu(key)
    \/ \E key \in AddKeys : MenuUpdateBackOption(key, BackAction(key), key = "q")
    \/ \E ph \in {"before_action", "after_action", "on_error"} :
           MenuAddHook(ph, IF ph = "before_action" THEN "raise" ELSE "log")
    \/ \E choice \in Keys, yes \in BOOLEAN, goOn \in BOOLEAN :
           MenuProcessAction(choice, yes, goOn)
    \/ \E key \in Keys, nc \in {"unset", "true", "false"}, yes \in BOOLEAN, goOn \in BOOLEAN :
           MenuRunHeadless(key, nc, yes, goOn)

MenuSpec == MenuInit /\ [][MenuNext]_vars

\* ---- EOF and keyboard interrupt during a dispatch
\* Ctrl-D and Ctrl-C at a prompt, or raised by the action.  EOFError is an
\* Exception, KeyboardInterrupt is not.
Signals == {"EOFError", "KeyboardInterrupt"}
Signal(sig, j) == Exc(sig, j, 0)
IsException(sig) == sig = "EOFError"
\* where the signal is raised: session.prompt(), the confirmation prompt,
\* option.action(), or the prompt of _handle_action_error
SignalPoints == {"key", "confirm", "action", "continue"}

\* Menu.process_action when sig is raised at the point at; the user answers
\* yes to a confirmation asked before that point and goOn after it
process_action_signalled(ob, m0, choice, at, sig, goOn) ==
    LET j == get_option(m0, choice)
        m == [m0 EXCEPT !.last_run_option = Upper(choice)]
        opt == OptionAt(m, j)
        hooks == should_hooks_run(ob, j)
        asked == IF AsksConfirm(m, j) THEN Prompt("confirm", j) ELSE <<>>
        result == IF at = "action" THEN Signal(sig, j) ELSE CallAction(opt, j)
        called == [opt EXCEPT !.ncalls = @ + 1]
        upto == asked
                \o (IF hooks THEN run_hooks(m.before_action, j, "menu_before") ELSE <<>>)
                \o run_hooks(opt.before_action, j, "before")
                \o <<Ev("action", 0, j, "", 0, result)>>
    IN CASE at = "key" -> Outcome(m0, Raise(Signal(sig, 0)), <<>>)
         [] at = "confirm" -> Outcome(m, Raise(Signal(sig, j)), asked)
         [] at = "action" /\ ~IsException(sig) ->
                Outcome(SetOption(m, j, called), Raise(result), upto)
         [] at = "action" /\ IsException(sig) ->
                Outcome(SetOption(m, j, called),
                        Return(Bool(handle_action_error(ob, m, goOn))),
                        upto \o handle_action_error_events(ob, m, j))
         [] OTHER ->
                Outcome(SetOption(m, j, called), Raise(Signal(sig, j)),
                        upto \o handle_action_error_events(ob, m, j))

\* Menu.run, lines 509-516: one pass of the loop around process_action.  The
\* pass ends the loop (run returns None) or leaves it running (nothing is
\* returned yet).
run_pass(r) ==
    IF r.out.kind = "raise"
    THEN IF r.out.val.t \in Signals THEN [r EXCEPT !.out = Return(None)] ELSE r
    ELSE IF r.out.val = Bool(FALSE) THEN [r EXCEPT !.out = Return(None)]
    ELSE [r EXCEPT !.out = NoRet]

\* Menu.run_headless when sig is raised at the point at
run_headless_signalled(ob, m0, option_key, never_confirm, at, sig) ==
    LET j == get_option(m0, option_key)
        m == [m0 EXCEPT !.never_confirm = IF never_confirm = "unset" THEN @
                                          ELSE never_confirm = "true",
                        !.last_run_option = Upper(option_key)]
        opt == OptionAt(m, j)
        hooks == should_hooks_run(ob, j)
        asked == IF AsksConfirm(m, j) THEN Prompt("confirm", j) ELSE <<>>
        result == IF at = "action" THEN Signal(sig, j) ELSE CallAction(opt, j)
        called == [opt EXCEPT !.ncalls = @ + 1]
        upto == asked
                \o (IF hooks THEN run_hooks(m.before_action, j, "menu_before") ELSE <<>>)
                \o run_hooks(opt.before_action, j, "before")
                \o <<Ev("action", 0, j, "", 0, result)>>
    IN CASE at = "confirm" -> Outcome(m, Raise(Signal(sig, j)), asked)
         [] at = "action" ->
                Outcome(SetOption(m, j, called),
                        Raise(MenuExc("MenuError", "interrupted")), upto)
         [] OTHER ->
                Outcome(SetOption(m, j, called), Raise(Signal(sig, j)),
                        upto \o handle_action_error_events(ob, m, j))

\* the signal can be raised at the point at of a dispatch on option j
CanSignal(m, j, at) ==
    CASE at = "key" -> TRUE
      [] at = "confirm" -> j # -1 /\ AsksConfirm(m, j)
      [] at = "action" -> j # -1
      [] OTHER -> /\ j # -1
                  /\ IsExc(CallAction(OptionAt(m, j), j))
                  /\ objs[1].continue_on_error_prompt /\ ~m.never_confirm

\* the event that tells where the signal was raised
Signalled(at, sig) == Ev("signal", 0, 0, at, 0, Signal(sig, 0))

\* one pass of Menu.run's loop in which sig is raised at the point at
MenuRunSignalled(choice, at, sig, goOn) ==
    /\ CanSignal(TheMenu, get_option(TheMenu, choice), at)
    /\ goOn \/ (at = "action" /\ IsException(sig)
                /\ objs[1].continue_on_error_prompt /\ ~TheMenu.never_confirm)
    /\ LET r == run_pass(process_action_signalled(objs[1], TheMenu, choice, at, sig, goOn))
       IN MenuCall("run", Entered(choice), [r EXCEPT !.events = <<Signalled(at, sig)>> \o @])

MenuHeadlessSignalled(key, never_confirm, at, sig) ==
    /\ at # "key"
    /\ LET m == [TheMenu EXCEPT !.never_confirm = IF never_confirm = "unset" THEN @
                                                  ELSE never_confirm = "true"]
       IN CanSignal(m, get_option(TheMenu, key), at)
    /\ LET r == run_headless_signalled(objs[1], TheMenu, key, never_confirm, at, sig)
       IN MenuCall("run_headless", Entered(key), [r EXCEPT !.events = <<Signalled(at, sig)>> \o @])

SignalNext ==
    \/ \E key \in AddKeys, p \in OptionProfiles : MenuAddOption(key, p)
    \/ \E key \in AddKeys : MenuUpdateBackOption(key, BackAction(key), key = "q")
    \/ \E ph \in {"before_action", "after_action", "on_error"} :
           MenuAddHook(ph, IF ph = "before_action" THEN "raise" ELSE "log")
    \/ \E choice \in Keys, at \in SignalPoints, sig \in Signals, goOn \in BOOLEAN :
           MenuRunSignalled(choice, at, sig, goOn)
    \/ \E key \in Keys, nc \in {"unset", "true", "false"}, at \in SignalPoints, sig \in Signals :
           MenuHeadlessSignalled(key, nc, at, sig)

SignalSpec == MenuInit /\ [][SignalNext]_vars

\* ------------------------------------------------------------ hooks that raise
\* Hook lists with a hook that raises first, in the middle, or not at all.
HookLists == {<<"log">>, <<"raise", "log">>, <<"log", "raise", "log">>}
ErrorHookLists == {<<>>, <<"log">>, <<"recover">>, <<"raise", "log">>,
                   <<"log", "raise", "log">>, <<"recover", "raise", "log">>}

\* An Action or an Option over a callable that returns, raises once, or
\* always raises, with hooks of every phase that may raise.
HookConfigs ==
    { <<Object(kind, body, "none", <<>>, HookManager(b, a, e, t), 0)>> :
        kind \in {"Action", "Option"},
        body \in {Fn(0, FALSE, FALSE), Fn(1, FALSE, FALSE), Fn(0, TRUE, FALSE)},
        b \in HookLists, a \in HookLists, e \in ErrorHookLists, t \in HookLists }

HookInit ==
    /\ objs \in HookConfigs
    /\ heap = [o \in 1..Len(objs) |-> NewObject]
    /\ ctxs = <<>>
    /\ stack = <<>>
    /\ ready = <<>>
    /\ ret = NoRet
    /\ now = 0
    /\ calls = 0
    /\ trace = <<>>

HookNext ==
    \/ \E a \in ArgValues : Invoke(a)
    \/ CallBefore
    \/ ActionRun
    \/ OptionExecuteCallable
    \/ CallOnError
    \/ CallOnErrorRaised
    \/ CallRecovered
    \/ CallReraise
    \/ CallFinally
    \/ CallTeardown
    \/ CallEnd
    \/ HookLog
    \/ HookRaise
    \/ HookRecover
    \/ TriggerDone
    \/ RunMainDone
    \/ RunClose

HookSpec == HookInit /\ [][HookNext]_vars

\* ------------------------------------------------------------ interrupted bodies
\* What ends a body without being an Exception: Ctrl-C while it runs, or
\* sys.exit() called by it.
Interrupts == {"KeyboardInterrupt", "SystemExit"}

\* An Action or an Option over a callable, with one hook in every phase and
\* an on_error hook that logs or recovers, or none.
InterruptConfigs ==
    { <<Object(kind, body, "none", <<>>,
               HookManager(<<"log">>, <<"log">>, e, <<"log">>), 0)>> :
        kind \in {"Action", "Option"},
        body \in {Fn(0, FALSE, FALSE), Fn(1, FALSE, FALSE), Fn(0, TRUE, FALSE)},
        e \in {<<>>, <<"log">>, <<"recover">>} }

InterruptInit ==
    /\ objs \in InterruptConfigs
    /\ heap = [o \in 1..Len(objs) |-> NewObject]
    /\ ctxs = <<>>
    /\ stack = <<>>
    /\ ready = <<>>
    /\ ret = NoRet
    /\ now = 0
    /\ calls = 0
    /\ trace = <<>>

\* The body raised out, which except Exception (line 53) does not catch:
\* control goes to the finally block with nothing put in the context.
BodyInterrupted(out, tr) ==
    /\ stack' = [stack EXCEPT ![Len(stack)] =
                    [@ EXCEPT !.pc = "finally", !.k = "raise", !.v = out]]
    /\ trace' = Append(tr, Ev("ran", Top.c, Top.o, "", 0, out))
    /\ ret' = NoRet

\* Action._run: fn() is interrupted
ActionInterrupted(sig) ==
    /\ Running("call", "run")
    /\ objs[Top.o].kind = "Action"
    /\ LET o == Top.o
           out == Exc(sig, o, heap[o].ncalls + 1)
       IN /\ heap' = [heap EXCEPT ![o].ncalls = @ + 1]
          /\ BodyInterrupted(out, Append(Run, Ev("body", Top.c, o, "", 0, out)))
    /\ UNCHANGED <<objs, ctxs, ready, now, calls>>

\* Option._execute_action: self.action() is interrupted, set_result is not reached
OptionInterrupted(sig) ==
    /\ Running("call", "run")
    /\ objs[Top.o].kind = "Option"
    /\ objs[Top.o].actions = <<>>
    /\ LET o == Top.o
           out == Exc(sig, o, heap[o].ncalls + 1)
       IN /\ heap' = [heap EXCEPT ![o].ncalls = @ + 1]
          /\ BodyInterrupted(out, Append(Run, Ev("body", Top.c, o, "", 0, out)))
    /\ UNCHANGED <<objs, ctxs, ready, now, calls>>

InterruptNext ==
    \/ \E a \in ArgValues : Invoke(a)
    \/ CallBefore
    \/ ActionRun
    \/ OptionExecuteCallable
    \/ \E sig \in Interrupts : ActionInterrupted(sig)
    \/ \E sig \in Interrupts : OptionInterrupted(sig)
    \/ CallOnError
    \/ CallRecovered
    \/ CallReraise
    \/ CallFinally
    \/ CallTeardown
    \/ CallEnd
    \/ HookLog
    \/ HookRecover
    \/ TriggerDone
    \/ RunMainDone
    \/ RunClose

InterruptSpec == InterruptInit /\ [][InterruptNext]_vars

\* ------------------------------------------------------------ HookManager alone
MaxManagerCalls == 3    \* calls made on one HookManager by the environment

\* HookManager.__init__: self._hooks
NewHookManager == [p \in PhaseNames |-> <<>>]

\* the phase names the environment passes: the four, and two that are not
PhaseArgs == PhaseNames \cup {"teardown", ""}

\* HookManager.register
register(hooks, hook_type, hook) ==
    IF hook_type \notin DOMAIN hooks
    THEN Outcome(hooks, Raise(Exc("ValueError", 0, 0)), <<>>)
    ELSE Outcome([hooks EXCEPT ![hook_type] = Append(@, hook)], Return(None), <<>>)

\* HookManager.clear(hook_type): one list, or all of them for None and ""
clear(hooks, hook_type) ==
    IF hook_type # ""
    THEN Outcome([p \in DOMAIN hooks \cup {hook_type} |->
                     IF p = hook_type THEN <<>> ELSE hooks[p]],
                 Return(None), <<>>)
    ELSE Outcome([p \in DOMAIN hooks |-> <<>>], Return(None), <<>>)

\* HookManager.trigger(hook_type, context) driven to completion; hasExc says
\* whether context holds 'exception'
trigger(hooks, hook_type, hasExc) ==
    IF hook_type \notin DOMAIN hooks
    THEN Outcome(hooks, Raise(Exc("ValueError", 0, 0)), <<>>)
    ELSE LET list == hooks[hook_type]
             ran == [i \in 1..Len(list) |->
                        Ev("hook", 0, 0, hook_type, i,
                           IF list[i] = "raise" THEN Exc("HookError", 0, i) ELSE None)]
             raising == {i \in 1..Len(list) : list[i] = "raise"}
             first == CHOOSE i \in raising : \A k \in raising : i <= k
         IN IF hook_type = "on_error" /\ raising # {}
            THEN Outcome(hooks,
                         Raise(PyRaise(IF hasExc THEN Exc("Error", 0, 0) ELSE None, 0)),
                         SubSeq(ran, 1, first))
            ELSE Outcome(hooks, Return(None), ran)

ManagerInit ==
    /\ objs = <<[kind |-> "HookManager"]>>
    /\ heap = <<NewHookManager>>
    /\ ctxs = <<>>
    /\ stack = <<>>
    /\ ready = <<>>
    /\ ret = NoRet
    /\ now = 0
    /\ calls = 0
    /\ trace = <<>>

TheManager == heap[1]

\* One call on the HookManager: its lists afterwards, what the call returned
\* or raised, and the history of this call (which method, for which phase
\* name, then the hooks it ran).
ManagerCall(name, hook_type, r) ==
    /\ calls < MaxManagerCalls
    /\ calls' = calls + 1
    /\ heap' = <<r.menu>>
    /\ ret' = r.out
    /\ trace' = <<Ev("call", 0, 0, name, 0, Entered(hook_type))>> \o r.events
    /\ UNCHANGED <<objs, ctxs, stack, ready, now>>

ManagerRegister(hook_type, hook) ==
    /\ hook \in {"log", "raise"}
    /\ ManagerCall("register", hook_type, register(TheManager, hook_type, hook))

ManagerClear(hook_type) ==
    /\ hook_type \in PhaseArgs
    /\ ManagerCall("clear", hook_type, clear(TheManager, hook_type))

ManagerTrigger(hook_type, hasExc) ==
    /\ hook_type \in PhaseArgs
    /\ ManagerCall("trigger", hook_type, trigger(TheManager, hook_type, hasExc))

ManagerNext ==
    \/ \E p \in PhaseArgs, hook \in {"log", "raise"} : ManagerRegister(p, hook)
    \/ \E p \in PhaseArgs : ManagerClear(p)
    \/ \E p \in PhaseArgs, hasExc \in BOOLEAN : ManagerTrigger(p, hasExc)

ManagerSpec == ManagerInit /\ [][ManagerNext]_vars

\* ------------------------------------------------------------ reading the history
Idx == 1..Len(trace)
CtxIds == 1..Len(ctxs)
KindOf(c) == objs[ctxs[c].obj].kind
HooksOf(c, ph) == objs[ctxs[c].obj].hooks[ph]

IsEnd(ev) == ev.e \in {"return", "raise"}
Ended(c) == \E j \in Idx : IsEnd(trace[j]) /\ trace[j].c = c
CallIdx(c) == CHOOSE j \in Idx : trace[j].e = "call" /\ trace[j].c = c
EndIdx(c) == CHOOSE j \in Idx : IsEnd(trace[j]) /\ trace[j].c = c
\* the last event so far of invocation c's extent
LastIdx(c) == IF Ended(c) THEN EndIdx(c) ELSE Len(trace)
Extent(c) == SubSeq(trace, CallIdx(c), LastIdx(c))

IsRan(ev, c) == ev.e = "ran" /\ ev.c = c
Ran(c) == \E j \in Idx : IsRan(trace[j], c)
RanIdx(c) == CHOOSE j \in Idx : IsRan(trace[j], c)
BodyFailed(c) == Ran(c) /\ IsExc(trace[RanIdx(c)].x)

IsPrefix(a, b) == Len(a) <= Len(b) /\ a = SubSeq(b, 1, Len(a))

\* ------------------------------------------------------------ claims
\* What invocation c showed of its own lifecycle before it returned or raised:
\* its hooks as they ran, and where its body began and ended.
Lifecycle(c) ==
    LET own(ev) == /\ ev.c = c
                   /\ ev.o = ctxs[c].obj
                   /\ ev.e \in {"hook", "run", "ran"}
        seen == SelectSeq(Extent(c), own)
    IN [j \in 1..Len(seen) |-> <<seen[j].e, seen[j].ph, seen[j].i>>]

Phase(c, ph) == [j \in 1..Len(HooksOf(c, ph)) |-> <<"hook", ph, j>>]
Body == << <<"run", "", 0>>, <<"ran", "", 0>> >>

\* before* body after* on_teardown*  on success;
\* before* body on_error* [after*] on_teardown*  on failure, after only when
\* 'exception' is gone from the context (on_error stops at a hook that raises).
PhaseOrder(c) ==
    \E n \in 0..Len(HooksOf(c, "on_error")) :
        Lifecycle(c) =
            Phase(c, "before") \o Body
            \o (IF BodyFailed(c) THEN SubSeq(Phase(c, "on_error"), 1, n) ELSE <<>>)
            \o (IF ctxs[c].hasExc THEN <<>> ELSE Phase(c, "after"))
            \o Phase(c, "on_teardown")

\* C1: every invocation of an Action, ChainedAction or Option that completes
\* has shown exactly: its before hooks, its body, then on success its after
\* hooks and its on_teardown hooks, on failure its on_error hooks, its after
\* hooks only if recovered, and its on_teardown hooks.
C1_PhaseOrdering ==
    \A c \in CtxIds :
        (Ended(c) /\ KindOf(c) \in {"Action", "ChainedAction", "Option"})
            => PhaseOrder(c)

IsTeardown(ev, what, c) == ev.e = what /\ ev.ph = "on_teardown" /\ ev.c = c

\* C2: for every invocation that starts, of any action variant or Option,
\* on_teardown is triggered exactly once and has completed when the call
\* returns or raises.
C2_TeardownOnce ==
    \A c \in CtxIds :
        Ended(c) =>
            /\ Cardinality({j \in Idx : IsTeardown(trace[j], "begin", c)}) = 1
            /\ \E j \in 1..EndIdx(c) : IsTeardown(trace[j], "end", c)

\* ---- ChainedAction
IsChain(c) == KindOf(c) = "ChainedAction"
ChildrenOf(c) == objs[ctxs[c].obj].actions

\* what chain invocation c's body showed: the child that raised, the
\* rollbacks, the end of the body
ChainEvents(c) ==
    LET mine(ev) == ev.c = c /\ ev.e \in {"child_raised", "rollback", "ran"}
    IN SelectSeq(trace, mine)
IsChildRaised(ev) == ev.e = "child_raised"
IsRollback(ev) == ev.e = "rollback"

\* the rollbacks among the events evs, in order: <<child, object, args>>
RollbacksIn(evs) ==
    LET seen == SelectSeq(evs, IsRollback)
    IN [j \in 1..Len(seen) |-> <<seen[j].i, seen[j].o, seen[j].x.n>>]
Rollbacks(c) == RollbacksIn(ChainEvents(c))

ChildRaised(c) == {j \in Idx : trace[j].e = "child_raised" /\ trace[j].c = c}
\* the child at which chain invocation c failed
FailedAt(c) == trace[CHOOSE j \in ChildRaised(c) : TRUE].i

\* children i-1, ..., 1 of those before child i that are leaf Actions with a
\* rollback, each with the chain's arguments
RollbacksDue(c, i) ==
    LET down == [k \in 1..(i - 1) |-> i - k]
        leaf(j) == /\ objs[ChildrenOf(c)[j]].kind = "Action"
                   /\ objs[ChildrenOf(c)[j]].rollback # "none"
        due == SelectSeq(down, leaf)
    IN [k \in 1..Len(due) |-> <<due[k], ChildrenOf(c)[due[k]], ctxs[c].args>>]

\* C3: when a ChainedAction fails at child i, every child j < i that is a leaf
\* Action with a rollback has been rolled back exactly once, with the chain's
\* arguments, in the order i-1, ..., 0; child i and the children after it are
\* never rolled back; a chain that does not fail rolls nothing back.
C3_RollbackCompleteness ==
    \A c \in CtxIds :
        IsChain(c) =>
            LET evs == ChainEvents(c)
                raised == SelectSeq(evs, IsChildRaised)
                done == RollbacksIn(evs)
            IN IF raised = <<>>
               THEN done = <<>>
               ELSE /\ Len(raised) = 1
                    /\ IsPrefix(done, RollbacksDue(c, raised[1].i))
                    /\ evs[Len(evs)].e = "ran" => done = RollbacksDue(c, raised[1].i)

\* a chain has failed at its third child and rolled back the second, then the first
C3_Witness ==
    \E c \in CtxIds :
        /\ IsChain(c) /\ Ran(c)
        /\ ChildRaised(c) # {}
        /\ FailedAt(c) = 3
        /\ Len(Rollbacks(c)) = 2
        /\ Rollbacks(c)[1][1] = 2 /\ Rollbacks(c)[2][1] = 1

\* the invocations chain invocation c made of its children
ChainChildren(c) == {d \in CtxIds : ctxs[d].parent = c /\ ctxs[d].via = "chain"}
TeardownDone(d, j) == \E k \in 1..j : IsTeardown(trace[k], "end", d)

\* C4: in a ChainedAction a child starts only after the child before it has
\* completed its whole lifecycle, on_teardown included; once a child raises no
\* later child is started; and a chain invocation that raises raises the very
\* exception its child raised.
C4_ChainSequencing ==
    \A c \in CtxIds :
        IsChain(c) =>
            /\ \A d, e \in ChainChildren(c) :
                   d < e => /\ Ended(d)
                            /\ EndIdx(d) < CallIdx(e)
                            /\ TeardownDone(d, CallIdx(e))
            /\ \A j \in ChildRaised(c) :
                   /\ \A e \in ChainChildren(c) : CallIdx(e) < j
                   /\ (Ended(c) /\ trace[EndIdx(c)].e = "raise")
                          => trace[EndIdx(c)].x = trace[j].x

\* ---- ActionGroup
IsGroup(c) == KindOf(c) = "ActionGroup"
\* the invocations group invocation c made of its children
GroupChildren(c) == {d \in CtxIds : ctxs[d].parent = c /\ ctxs[d].via = "group"}
\* a child whose callable raises when it is called
ChildFails(a) == IsExc(fn(a))

\* C5: whenever a hook of an ActionGroup's own after or on_error phase runs,
\* the group's results and errors together hold one entry per child.
C5_GroupCompleteness ==
    (/\ Running("trigger", "hooks")
     /\ objs[Top.o].kind = "ActionGroup"
     /\ Top.ph \in {"after", "on_error"}
     /\ Top.i <= Len(Hooks(Top)))
        => Len(heap[Top.o].results) + Len(heap[Top.o].errors) = Len(objs[Top.o].actions)

\* C6: an ActionGroup invocation with a failing child, and no hook that
\* recovers, raises an AggregateError; an invocation returns only when errors
\* is empty.
C6_GroupAggregateError ==
    \A c \in CtxIds :
        (IsGroup(c) /\ Ended(c)) =>
            /\ ((\E j \in 1..Len(ChildrenOf(c)) : ChildFails(ChildrenOf(c)[j]))
                  /\ HooksOf(c, "on_error") \in {<<>>, <<"log">>})
                   => /\ trace[EndIdx(c)].e = "raise"
                      /\ trace[EndIdx(c)].x.t = "AggregateError"
            /\ trace[EndIdx(c)].e = "return" => heap[ctxs[c].obj].errors = <<>>

\* C7: when an ActionGroup invocation ends, every one of its children has been
\* invoked and has run to its end.
C7_GroupRunsEveryChild ==
    \A c \in CtxIds :
        (IsGroup(c) /\ Ended(c)) =>
            \A j \in 1..Len(ChildrenOf(c)) :
                \E d \in GroupChildren(c) :
                    ctxs[d].obj = ChildrenOf(c)[j] /\ Ended(d)

\* ---- RetryHandler
\* an invocation by the environment of a leaf Action whose on_error hooks are
\* the retry handler, alone or followed by a hook that only logs
IsRetried(c) ==
    /\ ctxs[c].via = "env"
    /\ KindOf(c) = "Action"
    /\ HooksOf(c, "on_error") \in {<<"retry">>, <<"retry", "log">>}

\* what the executions of the target's body gave during invocation c
Bodies(c) ==
    LET own(ev) == ev.e = "body" /\ ev.o = ctxs[c].obj
        seen == SelectSeq(Extent(c), own)
    IN [j \in 1..Len(seen) |-> seen[j].x]

\* the callable of invocation c's target fails k times from now, then succeeds
FailsThenSucceeds(c, k) ==
    LET f == objs[ctxs[c].obj].fn IN ~f.always /\ f.failFirst = k

\* C8: an invocation of an action whose body fails on its first k attempts and
\* then succeeds, 1 <= k <= max_retries, with the retry handler as on_error
\* hook, returns the value of the successful attempt.
C8_RetryRecovers ==
    \A c \in CtxIds :
        (/\ IsRetried(c) /\ Ended(c) /\ c = 1
         /\ \E k \in 1..objs[ctxs[c].obj].max_retries : FailsThenSucceeds(c, k))
            => /\ trace[EndIdx(c)].e = "return"
               /\ trace[EndIdx(c)].x = Value(ctxs[c].obj, objs[ctxs[c].obj].fn.failFirst + 1)

\* invocation c raised, a retry made for it returned, and c returned
RecoveredByRetry(c) ==
    /\ IsRetried(c) /\ Ended(c) /\ BodyFailed(c)
    /\ trace[EndIdx(c)].e = "return"

\* the times the target's after phase was started during invocation c
AfterTriggers(c) ==
    {j \in CallIdx(c)..LastIdx(c) :
        /\ trace[j].e = "begin" /\ trace[j].ph = "after"
        /\ trace[j].o = ctxs[c].obj}

\* C9: after a recovery by the retry handler the target's after phase has been
\* triggered exactly once in the whole outer invocation.
C9_AfterOnceOnRecovery ==
    \A c \in CtxIds : RecoveredByRetry(c) => Cardinality(AfterTriggers(c)) = 1

\* the times the retry handler was entered during invocation c
RetryEntries(c) ==
    {j \in CallIdx(c)..LastIdx(c) :
        /\ trace[j].e = "hook" /\ trace[j].ph = "on_error"
        /\ trace[j].o = ctxs[c].obj
        /\ objs[trace[j].o].hooks["on_error"][trace[j].i] = "retry"}

\* C10: an invocation of an action whose body always fails, with
\* RetryHandler(max_retries = n) as on_error hook, executes the body at most
\* n + 1 times, ends by raising, and enters the retry handler once.
C10_RetryBounded ==
    \A c \in CtxIds :
        (IsRetried(c) /\ objs[ctxs[c].obj].fn.always) =>
            /\ Len(Bodies(c)) <= objs[ctxs[c].obj].max_retries + 1
            /\ Cardinality(RetryEntries(c)) <= 1
            /\ Ended(c) => trace[EndIdx(c)].e = "raise"

\* ---- CircuitBreaker
\* the breaker's before hook found the circuit open during invocation c
Refused(c) == \E j \in Idx : trace[j].e = "refused" /\ trace[j].c = c
BodyRan(c) == \E j \in Idx : trace[j].e = "body" /\ trace[j].c = c

\* C11: an invocation by the environment whose breaker before hook finds
\* open_until in the future does not execute the body and fails with
\* CircuitBreakerOpen.
C11_OpenCircuitBlocks ==
    \A c \in CtxIds :
        (ctxs[c].via = "env" /\ Refused(c)) =>
            /\ ~BodyRan(c)
            /\ Ended(c) => /\ trace[EndIdx(c)].e = "raise"
                           /\ trace[EndIdx(c)].x.t = "CircuitBreakerOpen"

\* an invocation by the environment whose on_error hooks are the retry
\* handler, then the breaker's error hook, and which the retry handler recovered
RetryThenBreaker(c) ==
    /\ ctxs[c].via = "env"
    /\ HooksOf(c, "on_error") = <<"retry", "breaker_error">>
    /\ Ended(c) /\ BodyFailed(c)
    /\ trace[EndIdx(c)].e = "return"

\* the failures the breaker counted during invocation c
Counted(c) ==
    {j \in CallIdx(c)..LastIdx(c) : trace[j].e \in {"counted", "opened"}}

\* C12: with on_error hooks [retry_on_error, error_hook] an invocation that
\* the retry handler recovers does not count a failure and does not open the
\* circuit.
C12_RecoveryNotCounted ==
    \A c \in CtxIds : RetryThenBreaker(c) => Counted(c) = {}


\* ------------------------------------------------------------ Menu claims
IsMenuCall(names) == trace # <<>> /\ trace[1].e = "call" /\ trace[1].ph \in names
TableCalls == {"add_option", "add_options", "add_submenu", "update_back_option"}
Rejected == ret.kind = "raise" /\ ret.val.t = "OptionAlreadyExistsError"
UniqueKeys(m) ==
    /\ \A i, j \in 1..Len(m.options) : m.options[i][1] = m.options[j][1] => i = j
    /\ \A i \in 1..Len(m.options) :
          /\ m.options[i][1] = Upper(m.options[i][2].key)
          /\ m.options[i][1] # Upper(m.back_option.key)

\* a call on the table or the back option that raises is a rejection, and
\* leaves the back option and the table as they were; add_options keeps the
\* entries it added before the one that was rejected
C13_RejectedCall ==
    (IsMenuCall(TableCalls)' /\ ret'.kind = "raise") =>
        /\ Rejected'
        /\ TheMenu'.back_option = TheMenu.back_option
        /\ IF trace'[1].ph = "add_options"
           THEN IsPrefix(TheMenu.options, TheMenu'.options)
           ELSE TheMenu'.options = TheMenu.options

HooksAndAction(evs) == SelectSeq(evs, LAMBDA ev : ev.e \in {"hook", "action"})
NotFound == ret.kind = "raise" /\ ret.val.t = "MenuError" /\ ret.val.key \in Keys
Cancelled == ret.kind = "raise" /\ ret.val.t = "MenuError" /\ ret.val.key = "cancelled"
\* a run_headless call that found its option and was not declined at the
\* confirmation prompt
HeadlessRan == IsMenuCall({"run_headless"}) /\ ~NotFound /\ ~Cancelled
ActionFailed == \E i \in Idx : trace[i].e = "action" /\ IsExc(trace[i].x)
HookRan(ph) == \E i \in Idx : trace[i].e = "hook" /\ trace[i].ph = ph

\* run_headless(k) against process_action with the user entering k and
\* answering yes: the same hooks and action call in the same order with the
\* same action result, and the same Option afterwards (cached result, calls)
C14_HeadlessStep ==
    (HeadlessRan' /\ TheMenu'.never_confirm = TheMenu.never_confirm) =>
        \A goOn \in BOOLEAN :
                LET k == trace'[1].x.key
                    j == get_option(TheMenu, k)
                    p == process_action(objs[1], TheMenu, k, TRUE, goOn)
                IN /\ HooksAndAction(trace') = HooksAndAction(p.events)
                   /\ OptionAt(TheMenu', j) = OptionAt(p.menu, j)
                   /\ TheMenu' = p.menu

ActionError == trace[CHOOSE i \in Idx : trace[i].e = "action"].x
\* C15: run_headless(key) of an existing option whose action raises never
\* returns normally: it raises MenuError with the action's exception as its
\* cause, whatever never_confirm and continue_on_error_prompt are.
C15_HeadlessFailureRaises ==
    (HeadlessRan /\ ActionFailed) =>
        /\ ret.kind = "raise"
        /\ ret.val.t = "MenuError"
        /\ ret.val.cause = ActionError

\* C16: run_headless(key) with a key that is neither a key of the table nor
\* the key of the back option, compared case-insensitively, raises MenuError
\* naming the key; no hook and no action is run, no Option changes.
C16_UnknownKeyStep ==
    (IsMenuCall({"run_headless"})' /\ ~KeyTaken(TheMenu, trace'[1].x.key)) =>
        /\ NotFound' /\ ret'.val.key = trace'[1].x.key
        /\ Len(trace') = 1
        /\ TheMenu'.options = TheMenu.options
        /\ TheMenu'.back_option = TheMenu.back_option
C16_UnknownKey == [][C16_UnknownKeyStep]_vars

\* run_headless("zz") on a Menu with options and a menu-level before hook
C16_Witness ==
    /\ IsMenuCall({"run_headless"}) /\ NotFound /\ ret.val.key = "zz"
    /\ TheMenu.options # <<>> /\ TheMenu.before_action # <<>>

\* ------------------------------------------------------------ hook policy
\* this step ran hook i of phase ph for invocation c
HookRuns(c, ph) ==
    \E j \in Len(trace) + 1..Len(trace') :
        trace'[j].e = "hook" /\ trace'[j].c = c /\ trace'[j].ph = ph

\* C17: whenever an after, on_error or on_teardown hook of an invocation
\* runs, the context's duration has already been set to a number >= 0.
C17_DurationSetForHooks ==
    [][\A c \in CtxIds, ph \in {"after", "on_error", "on_teardown"} :
          (ctxs[c].sync /\ HookRuns(c, ph)) => ctxs[c].duration >= 0]_vars

PolicyPhases == {"before", "after", "on_teardown"}
Triggered(c, ph) == \E j \in Idx : trace[j].e = "begin" /\ trace[j].c = c /\ trace[j].ph = ph
Aborted(c, ph) == \E j \in Idx : trace[j].e = "abort" /\ trace[j].c = c /\ trace[j].ph = ph
\* the hooks of phase ph that ran for invocation c, by position in the list
HooksRun(c, ph) ==
    LET seen == SelectSeq(trace, LAMBDA ev : ev.e = "hook" /\ ev.c = c /\ ev.ph = ph)
    IN [j \in 1..Len(seen) |-> seen[j].i]
Raises(hooks) == \E j \in 1..Len(hooks) : hooks[j] = "raise"
QuietOnError(c) == HooksOf(c, "on_error") \in {<<>>, <<"log">>}

\* C18: a hook that raises in before, after or on_teardown does not stop the
\* other hooks of the phase, which run in order, does not make trigger raise,
\* and does not change the outcome: the body still runs after a failing
\* before hook, and what the body returned or raised is what the invocation
\* returns or raises.
C18_HookFailuresSwallowed ==
    \A c \in CtxIds :
        /\ \A ph \in PolicyPhases :
              /\ ~Aborted(c, ph)
              /\ (Ended(c) /\ Triggered(c, ph)) =>
                     HooksRun(c, ph) = [j \in 1..Len(HooksOf(c, ph)) |-> j]
        /\ Ended(c) =>
              /\ Ran(c)
              /\ ~BodyFailed(c) =>
                    /\ trace[EndIdx(c)].e = "return"
                    /\ trace[EndIdx(c)].x = trace[RanIdx(c)].x
              /\ (BodyFailed(c) /\ QuietOnError(c)) =>
                    /\ trace[EndIdx(c)].e = "raise"
                    /\ trace[EndIdx(c)].x = trace[RanIdx(c)].x

\* an invocation that returned its body's value although a hook raised in
\* each of before, after and on_teardown
C18_Witness ==
    \E c \in CtxIds :
        /\ Ended(c) /\ ~BodyFailed(c)
        /\ \A ph \in PolicyPhases :
              Raises(HooksOf(c, ph)) /\ Len(HooksRun(c, ph)) = Len(HooksOf(c, ph))

\* this step is trigger("on_error") of invocation c giving up at a hook
OnErrorAborts(c) ==
    \E j \in Len(trace) + 1..Len(trace') :
        trace'[j].e = "abort" /\ trace'[j].c = c /\ trace'[j].ph = "on_error"

\* C19: when an on_error hook raises, trigger at once raises the exception
\* the body raised and the later on_error hooks do not run, also for a
\* context from which an earlier on_error hook removed 'exception'.
C19_OnErrorReraisesOriginal ==
    /\ [][\A c \in CtxIds : OnErrorAborts(c) =>
             /\ ret'.kind = "raise"
             /\ ret'.val = trace[RanIdx(c)].x]_vars
    /\ [](\A c \in CtxIds : (Ended(c) /\ Aborted(c, "on_error")) =>
             \E n \in 1..Len(HooksOf(c, "on_error")) :
                 /\ HooksOf(c, "on_error")[n] = "raise"
                 /\ HooksRun(c, "on_error") = [j \in 1..n |-> j])

\* this step is a call of method name with a phase name that is not one of
\* the four
UnknownPhaseCall(name) ==
    /\ trace' # <<>>
    /\ trace'[1].e = "call" /\ trace'[1].ph = name
    /\ trace'[1].x.key \notin PhaseNames

\* C20: after any sequence of register, clear and trigger calls on a
\* HookManager, register and trigger fail for every phase name other than
\* before, after, on_error and on_teardown, and the manager holds hook lists
\* for exactly those four phases.
C20_FourPhases ==
    /\ [](DOMAIN TheManager = PhaseNames)
    /\ [][(UnknownPhaseCall("register") \/ UnknownPhaseCall("trigger")) =>
             /\ ret'.kind = "raise"
             /\ ret'.val.t = "ValueError"
             /\ TheManager' = TheManager]_vars

\* ------------------------------------------------------------ Menu dispatch
Dispatches == {"process_action", "run_headless"}
ActionRan == \E i \in Idx : trace[i].e = "action"
\* the place of the option whose action ran
Selected == trace[CHOOSE i \in Idx : trace[i].e = "action"].o
HookCalls(hooks, ph) == [i \in 1..Len(hooks) |-> <<ph, i>>]
\* the hooks and the action of the last call, in the order they ran
Shown ==
    LET evs == HooksAndAction(trace)
    IN [i \in 1..Len(evs) |->
          IF evs[i].e = "action" THEN <<"action", 0>> ELSE <<evs[i].ph, evs[i].i>>]

Attempts(c) == {d \in CtxIds : ctxs[d].parent = c /\ ctxs[d].via = "retry"}
LastAttempt(c) == CHOOSE d \in Attempts(c) : \A d2 \in Attempts(c) : d2 <= d
Raised(d) == Ended(d) /\ trace[EndIdx(d)].e = "raise"
\* the retry handler made all its attempts for c, and each one raised
AllAttemptsFailed(c) ==
    /\ Attempts(c) # {}
    /\ Cardinality(Attempts(c)) = objs[ctxs[c].obj].max_retries
    /\ \A d \in Attempts(c) : Raised(d)
AfterHookRan(c) == \E j \in Idx : trace[j].e = "hook" /\ trace[j].c = c /\ trace[j].ph = "after"

\* C22: when every retry attempt fails, retry_on_error raises the exception
\* of the most recent attempt, 'exception' is still in the context, and the
\* enclosing invocation ends as a failure: none of its after hooks runs and
\* its caller receives an exception.
C22_RetriesExhausted ==
    /\ [][(RetryExhausted /\ Attempts(Top.c) # {}) =>
             /\ ret'.kind = "raise"
             /\ ret'.val = trace[EndIdx(LastAttempt(Top.c))].x]_vars
    /\ [](\A c \in CtxIds :
             AllAttemptsFailed(c) =>
                 /\ ctxs[c].hasExc
                 /\ ~AfterHookRan(c)
                 /\ Ended(c) => trace[EndIdx(c)].e = "raise")

\* an invocation by the environment that raised after two failed attempts
C22_Witness ==
    \E c \in CtxIds :
        /\ ctxs[c].via = "env" /\ AllAttemptsFailed(c) /\ Raised(c)
        /\ Cardinality(Attempts(c)) = 2

\* the times hook i of the target's before phase ran during invocation c
BeforeRuns(c, i) ==
    {j \in CallIdx(c)..LastIdx(c) :
        /\ trace[j].e = "hook" /\ trace[j].ph = "before"
        /\ trace[j].o = ctxs[c].obj /\ trace[j].i = i}

\* C23: across one outer invocation with any number of retries, each before
\* hook of the target runs exactly once: a retry attempt runs the body
\* without running the before hooks again.
C23_BeforeOncePerInvocation ==
    \A c \in CtxIds :
        (IsRetried(c) /\ Ended(c)) =>
            \A i \in 1..Len(HooksOf(c, "before")) : Cardinality(BeforeRuns(c, i)) = 1

\* invocation c raised in its body and a recovery hook took 'exception' out
\* of its context and set 'result'
RecoveredByHook(c) ==
    /\ ctxs[c].via = "env"
    /\ HooksOf(c, "on_error") = <<"recover">>
    /\ Ended(c) /\ BodyFailed(c)

\* C24: an Option invocation whose body fails and is recovered by an on_error
\* hook returns the result the hook put in the context, as an Action does,
\* and never a value cached from an earlier invocation.
C24_OptionRecoveryResult ==
    \A c \in CtxIds :
        (RecoveredByHook(c) /\ KindOf(c) \in {"Action", "Option"}) =>
            /\ trace[EndIdx(c)].e = "return"
            /\ trace[EndIdx(c)].x = ctxs[c].res

\* C25: an invocation made while an event loop is running in the calling
\* thread behaves as one made by a synchronous caller: when it returns or
\* raises, its before hooks have run before its body and its on_error, after
\* and on_teardown hooks after it, and its body was run, not refused for
\* want of a loop to run it on.
C25_InLoopAsSync ==
    \A c \in CtxIds :
        (~ctxs[c].sync /\ Ended(c) /\ KindOf(c) \in {"Action", "Option"}) =>
            /\ PhaseOrder(c)
            /\ trace[EndIdx(c)].x.t # "RuntimeError"

\* ------------------------------------------------------------ chain failure
\* what the failing child of chain invocation c raised
ChildException(c) == trace[CHOOSE j \in ChildRaised(c) : TRUE].x
\* chain invocation c failed and one of the rollbacks it had to make raises
RollbackRaises(c) ==
    /\ IsChain(c)
    /\ \E k \in 1..Len(ChildrenOf(c)) : objs[ChildrenOf(c)[k]].rollback = "raises"
    /\ Ran(c) /\ ChildRaised(c) # {}
    /\ \E k \in 1..(FailedAt(c) - 1) : objs[ChildrenOf(c)[k]].rollback = "raises"

\* C26: a rollback that raises does not stop the rollback of a chain: every
\* other completed child with a rollback is still rolled back, in reverse
\* order, and the exception that leaves the chain is the one the failing
\* child raised.
C26_RollbackFailureContained ==
    \A c \in CtxIds :
        (/\ IsChain(c)
         /\ \E k \in 1..Len(ChildrenOf(c)) : objs[ChildrenOf(c)[k]].rollback = "raises") =>
            LET evs == ChainEvents(c)
                raised == SelectSeq(evs, IsChildRaised)
                failed == raised # <<>> /\ evs[Len(evs)].e = "ran"
            IN (failed /\ RollbackRaises(c)) =>
                /\ RollbacksIn(evs) = RollbacksDue(c, raised[1].i)
                /\ evs[Len(evs)].x = raised[1].x
                /\ (HooksOf(c, "on_error") = <<>> /\ Ended(c)) =>
                      /\ trace[EndIdx(c)].e = "raise"
                      /\ trace[EndIdx(c)].x = raised[1].x

\* a chain that failed at its third child, whose second child's rollback
\* raises and whose first child was rolled back after it
C26_Witness ==
    \E c \in CtxIds :
        /\ RollbackRaises(c) /\ Ended(c)
        /\ FailedAt(c) = 3
        /\ objs[ChildrenOf(c)[2]].rollback = "raises"
        /\ objs[ChildrenOf(c)[1]].rollback = "returns"
        /\ Len(Rollbacks(c)) = 2

\* C27: when a ChainedAction fails, the rollbacks of its completed children
\* are all done before the first on_error hook of the chain starts, and the
\* chain's on_error hooks find the failing child's exception in the context.
C27_RollbackBeforeOnError ==
    [][\A c \in CtxIds :
          (IsChain(c) /\ HookRuns(c, "on_error")) =>
              /\ ChildRaised(c) # {}
              /\ Rollbacks(c) = RollbacksDue(c, FailedAt(c))
              /\ ctxs[c].hasExc
              /\ ctxs[c].exc = ChildException(c)]_vars

\* an on_error hook of a chain has run after two rollbacks
C27_Witness ==
    \E c \in CtxIds :
        /\ IsChain(c) /\ Len(Rollbacks(c)) = 2
        /\ \E j \in Idx : trace[j].e = "hook" /\ trace[j].c = c /\ trace[j].ph = "on_error"

\* invocation c was made when reset_timeout had elapsed since the circuit
\* opened, and the circuit has not been closed since
StillOpen(c) ==
    LET b == heap[ctxs[c].obj] IN b.open_until # NotOpen /\ ctxs[c].t0 >= b.open_until

\* C28: the before hook of an invocation made once reset_timeout has elapsed
\* since the circuit opened closes the circuit (failures = 0, open_until
\* cleared) and the body of that invocation runs after it: while the circuit
\* has not been closed, the body of such an invocation has not run and the
\* invocation has not ended.
C28_ClosesAfterTimeout ==
    \A c \in CtxIds : StillOpen(c) => ~BodyRan(c) /\ ~Ended(c)

\* ---- confirmation
\* this step is a dispatch in which the user answers no to the confirmation
DeclinedLoop ==
    /\ IsMenuCall({"process_action"})'
    /\ \E goOn \in BOOLEAN : MenuProcessAction(trace'[1].x.key, FALSE, goOn)
DeclinedHeadless ==
    /\ IsMenuCall({"run_headless"})'
    /\ \E nc \in {"unset", "true", "false"}, goOn \in BOOLEAN :
           MenuRunHeadless(trace'[1].x.key, nc, FALSE, goOn)
\* the confirmation was asked and nothing else happened
OnlyAsked(tr) == Len(tr) = 2 /\ tr[2].e = "prompt" /\ tr[2].ph = "confirm"
\* every option, the back option included, is as it was
OptionsUntouched ==
    /\ TheMenu'.options = TheMenu.options
    /\ TheMenu'.back_option = TheMenu.back_option
ConfirmAsked(tr) == \E i \in 1..Len(tr) : tr[i].e = "prompt" /\ tr[i].ph = "confirm"

\* C29: a negative answer to the confirmation of the selected option ends the
\* dispatch before any hook or the action runs and leaves every option's
\* cached result as it was; process_action then returns True (the loop goes
\* on) and run_headless raises MenuError.  With never_confirm true no
\* confirmation is asked.
C29_NegativeConfirmation ==
    [][/\ DeclinedLoop =>
            /\ OnlyAsked(trace') /\ OptionsUntouched
            /\ ret' = Return(Bool(TRUE))
       /\ DeclinedHeadless =>
            /\ OnlyAsked(trace') /\ OptionsUntouched
            /\ ret'.kind = "raise" /\ ret'.val.t = "MenuError"
       /\ (IsMenuCall(Dispatches)' /\ TheMenu'.never_confirm) => ~ConfirmAsked(trace')]_vars

\* the user declined an option that has a cached result
C29_Witness ==
    /\ IsMenuCall(Dispatches) /\ OnlyAsked(trace)
    /\ OptionAt(TheMenu, trace[2].o).result # None
\* a dispatch on an option that requires confirmation, with never_confirm true
C29_WitnessNever ==
    /\ IsMenuCall(Dispatches) /\ TheMenu.never_confirm
    /\ ActionRan /\ OptionAt(TheMenu, Selected).confirm

\* ---- the back option
\* the last call was a pass of the loop in which the back option was selected
\* and, if it asks for confirmation, confirmed
BackSelected == IsMenuCall({"process_action"}) /\ ActionRan /\ Selected = 0
MenuPhases == {"menu_before", "menu_after", "menu_on_error"}
MenuHooksRan == \E i \in Idx : trace[i].e = "hook" /\ trace[i].ph \in MenuPhases
PromptedAgain ==
    \E i \in Idx : trace[i].e = "prompt" /\ trace[i].ph = "continue"

\* C30: a pass of the loop in which the back option is selected (and
\* confirmed) returns False, so that the loop exits, without another prompt,
\* whatever the back option's action does; menu-level hooks run in that pass
\* only if run_hooks_on_back_option is true, and then all of them do.
C30_BackExits ==
    BackSelected =>
        /\ ret = Return(Bool(FALSE))
        /\ ~PromptedAgain
        /\ MenuHooksRan => objs[1].run_hooks_on_back_option
        /\ objs[1].run_hooks_on_back_option =>
              \A i \in 1..Len(TheMenu.before_action) :
                  \E k \in Idx : /\ trace[k].e = "hook" /\ trace[k].ph = "menu_before"
                                 /\ trace[k].i = i

\* ---- after an action error in the loop
\* this step is a pass of the loop in which the action raised and the user,
\* asked whether to continue, answers goOn
LoopErrorAnswered(goOn) ==
    /\ IsMenuCall({"process_action"})' /\ ActionFailed'
    /\ \E yes \in BOOLEAN : MenuProcessAction(trace'[1].x.key, yes, goOn)

\* C31: in a pass of the loop whose action raised, with never_confirm true
\* process_action returns True (the loop goes on) without asking; with
\* never_confirm false and continue_on_error_prompt true the user is asked
\* whether to continue and process_action returns the answer: False (the
\* loop exits) on a negative answer, True on a positive one.
C31_ContinueAfterError ==
    [][(IsMenuCall({"process_action"})' /\ ActionFailed') =>
          /\ TheMenu.never_confirm =>
                ret' = Return(Bool(TRUE)) /\ ~PromptedAgain'
          /\ (~TheMenu.never_confirm /\ objs[1].continue_on_error_prompt) =>
                /\ PromptedAgain'
                /\ \A goOn \in BOOLEAN :
                      LoopErrorAnswered(goOn) => ret' = Return(Bool(goOn))]_vars

\* the user was asked after an error and answered yes: the loop goes on
C31_Witness ==
    /\ IsMenuCall({"process_action"}) /\ ActionFailed /\ PromptedAgain
    /\ ret = Return(Bool(TRUE))
\* the user answered no
C31_WitnessNo ==
    /\ IsMenuCall({"process_action"}) /\ ActionFailed /\ PromptedAgain
    /\ ret = Return(Bool(FALSE))
\* never_confirm true
C31_WitnessNever ==
    /\ IsMenuCall({"process_action"}) /\ ActionFailed /\ TheMenu.never_confirm

\* ---- EOF and keyboard interrupt
\* the last call was a dispatch in which a signal was raised
WasSignalled == Len(trace) >= 2 /\ trace[2].e = "signal"

\* C32: a dispatch in which EOFError or KeyboardInterrupt is raised, at the
\* key prompt, the confirmation prompt, in the action or at the prompt after
\* an error, makes Menu.run return without raising and makes run_headless
\* raise MenuError, never the raw signal.
C32_SignalsHandled ==
    WasSignalled =>
        /\ IsMenuCall({"run"}) => ret = Return(None)
        /\ IsMenuCall({"run_headless"}) => ret.kind = "raise" /\ ret.val.t = "MenuError"

\* ---- CircuitBreaker counters
\* C33: the failures count of a breaker that guards an action stays between
\* 0 and max_failures, however many invocations are made while the circuit
\* is open.
C33_FailuresBounded ==
    \A o \in 1..Len(objs) :
        (/\ objs[o].hooks.before = <<"breaker_before">>
         /\ objs[o].hooks.on_error = <<"breaker_error">>
         /\ objs[o].hooks.after = <<"breaker_after">>) =>
            heap[o].failures >= 0 /\ heap[o].failures <= objs[o].max_failures

\* C34: when the breaker's after_hook has run for an invocation the circuit
\* is closed: failures = 0 and open_until is cleared, so that the before hook
\* of the next invocation does not refuse it.
C34_AfterHookCloses ==
    [][HookBreakerAfter =>
          /\ heap'[Top.o].failures = 0
          /\ heap'[Top.o].open_until = NotOpen]_vars

\* an invocation by the environment whose on_error hooks are the retry
\* handler, then the breaker's error hook, and which failed in the end
RetriesExhausted(c) ==
    /\ ctxs[c].via = "env"
    /\ HooksOf(c, "on_error") = <<"retry", "breaker_error">>
    /\ Ended(c) /\ trace[EndIdx(c)].e = "raise"

\* C35: with on_error hooks [retry_on_error, error_hook] an invocation that
\* fails in the end, all its retries exhausted, has had its failure counted
\* by the breaker at least once.
C35_FinalFailureCounted ==
    \A c \in CtxIds : RetriesExhausted(c) => Counted(c) # {}

\* ---- run_headless and the Menu's configuration
\* what an Option was given at construction: everything but its cached
\* result and the count of its calls
Configured(opt) == [opt EXCEPT !.result = None, !.ncalls = 0]
TableConfigured(m) ==
    [j \in 1..Len(m.options) |-> <<m.options[j][1], Configured(m.options[j][2])>>]

\* C36: a run_headless call, whether it returns or raises, leaves the Menu's
\* never_confirm flag, its table of options and its back option as they were.
C36_HeadlessKeepsConfiguration ==
    [][IsMenuCall({"run_headless"})' =>
          /\ TheMenu'.never_confirm = TheMenu.never_confirm
          /\ TableConfigured(TheMenu') = TableConfigured(TheMenu)
          /\ Configured(TheMenu'.back_option) = Configured(TheMenu.back_option)]_vars

\* ---- interrupted bodies
\* the body of invocation c was ended by an interrupt
Interrupted(c) == Ran(c) /\ trace[RanIdx(c)].x.t \in Interrupts
\* an on_error hook of invocation c removed the exception from the context
RecoveredBy(c) ==
    /\ BodyFailed(c) /\ ~Interrupted(c)
    /\ HooksOf(c, "on_error") = <<"recover">>
    /\ \E j \in Idx : trace[j].e = "hook" /\ trace[j].c = c /\ trace[j].ph = "on_error"

\* C37: after hooks of an Action or Option invocation run only if its body
\* returned or an on_error hook recovered its failure; when the body is ended
\* by KeyboardInterrupt or SystemExit no after hook runs and the context has
\* no result.
C37_AfterOnlyOnSuccess ==
    \A c \in CtxIds :
        /\ AfterHookRan(c) =>
              /\ Ran(c)
              /\ ~IsExc(trace[RanIdx(c)].x) \/ RecoveredBy(c)
        /\ Interrupted(c) => ~AfterHookRan(c) /\ ~ctxs[c].hasRes

\* ---- timing
\* C38: the duration that the finally block puts in the context of an
\* invocation, for its after and on_teardown hooks, is the time since that
\* invocation's own start, also when the same object was invoked again in
\* the meantime.
C38_DurationFromOwnStart ==
    [][CallFinally => ctxs'[Top.c].duration = now - ctxs[Top.c].t0]_vars

\* ---- nested composites
IsComposite(a) == objs[a].kind \in {"ChainedAction", "ActionGroup"}
\* the place of object a among the children of chain invocation c, 0 if none
PlaceIn(c, a) ==
    IF \E k \in 1..Len(ChildrenOf(c)) : ChildrenOf(c)[k] = a
    THEN CHOOSE k \in 1..Len(ChildrenOf(c)) : ChildrenOf(c)[k] = a
    ELSE 0
\* the rollbacks called from the moment chain invocation c saw its child
\* raise until c ended
RollbackPhase(c) ==
    {j \in Idx : /\ trace[j].e = "rollback"
                 /\ j > (CHOOSE k \in ChildRaised(c) : TRUE)
                 /\ j <= LastIdx(c)}

\* C39: when a ChainedAction fails at child i, the rollbacks it calls are
\* those of its own children before i that are leaf Actions: a completed
\* child that is a ChainedAction or an ActionGroup is not rolled back, and no
\* rollback of a leaf nested in it is called.
C39_RollbackDirectChildrenOnly ==
    \A c \in CtxIds :
        (IsChain(c) /\ ChildRaised(c) # {}) =>
            \A j \in RollbackPhase(c) :
                /\ trace[j].c = c
                /\ ~IsComposite(trace[j].o)
                /\ PlaceIn(c, trace[j].o) \in 1..(FailedAt(c) - 1)

\* the outer chain failed at its third child after its first child, a
\* composite whose leaves have rollbacks, and its second child had completed
C39_Witness ==
    \E c \in CtxIds :
        /\ IsChain(c) /\ Ended(c) /\ ChildRaised(c) # {} /\ FailedAt(c) = 3
        /\ IsComposite(ChildrenOf(c)[1])
        /\ \A a \in {3, 4} : objs[a].rollback # "none"
        /\ RollbackPhase(c) # {}
====
